---------------------------- MODULE Spec2Model ----------------------------
(***************************************************************************)
(* Model of the batch ledger (src/src/utils/batch_manager.py) and of the   *)
(* batch run that drives it (src/batch_convert.py, run_batch_conversion).  *)
(*                                                                         *)
(* One batch name is modelled: its progress file is the variable `disk`.   *)
(* A batch run is one process; `pc` is its position in                     *)
(* run_batch_conversion.  The process can be interrupted at any position   *)
(* (Interrupt): everything in memory is lost, the progress file stays.     *)
(*                                                                         *)
(* Python values:                                                          *)
(*   None is {} and a present Optional value x is {x};                     *)
(*   a float score is an integer number of thousandths (1.0 is 1000);      *)
(*   a pathlib.Path is a record [parent, stem] whose stem is a sequence of *)
(*   one-character strings (the suffix is always ".dfy", the glob's);      *)
(*   datetime.now().isoformat() is one value, Now: no operation reads a    *)
(*   timestamp back, so the instants are not told apart.                   *)
(***************************************************************************)
EXTENDS Integers, Sequences, FiniteSets, TLC

VARIABLES
    items,            \* BatchManager.items of the live instance
    completed_files,  \* BatchManager.completed_files of the live instance
    disk,             \* the progress file <batch_name>_progress.json
    pc,               \* position of the batch run
    reset_failed,     \* the run's --reset-failed flag
    files_to_process, \* the run's pending list: references into items
    i,                \* the loop index of the run (1-based, as enumerate(.., 1))
    result,           \* the pipeline result of the item under conversion
    dafny_files,      \* the source files the input directory holds
    transformed,      \* history: the paths handed to the transform in this run,
                      \*          in call order
    startCompleted,   \* history: the paths of the items that were completed in
                      \*          the progress file when this run started
    startFailed,      \* history: the same for the failed items
    startOpen,        \* history: the positions of the items that were pending
                      \*          or running in the progress file when this run
                      \*          started
    lastOp,           \* history: the last ledger operation that returned
    intoFailed,       \* history: per item position, the number of status
                      \*          changes from a status other than failed to failed
    converter_config, \* ConversionService.converter_config: enable_validation
                      \*          and enable_test_generation
    pipeline,         \* ConversionService: per file of a batch_convert call, what
                      \*          the converter, the tester, the validator, the file
                      \*          system and the result saver do for it
    save_results,     \* ConversionService.save_results
    results,          \* the list batch_convert builds
    raised,           \* the exception that left batch_convert, None when none did
    archive,          \* the files the result saver has written, whole or in
                      \*          part, and that are still there
    calls,            \* history: per file of the batch_convert call, the calls
                      \*          convert_single_file made to its collaborators, then
                      \*          the calls batch_convert made to the result saver
    summary,          \* the dictionary get_progress_summary returned last
    dafny_code,       \* the source text given to validate_conversion
    c_code,           \* the target text given to validate_conversion
    test_score,       \* the test_score keyword given to validate_conversion
    validation_result \* the ValidationResult validate_conversion returned

vars == <<items, completed_files, disk, pc, reset_failed, files_to_process, i,
          result, dafny_files, transformed, startCompleted, startFailed,
          startOpen, lastOp, intoFailed, converter_config, pipeline, save_results,
          results, raised, archive, calls,
          summary, dafny_code, c_code, test_score, validation_result>>

\* the variables of the conversion service, of the progress summary and of the
\* validator: the batch run and the ledger operations leave them alone
standalone == <<converter_config, pipeline, save_results, results, raised,
                archive, calls, summary, dafny_code, c_code, test_score, validation_result>>

-----------------------------------------------------------------------------
(* Bounds *)

\* the longest ledger a batch run is started on: a run starts only when the
\* items of the progress file and the files it adds fit
MaxItems == 6

-----------------------------------------------------------------------------
(* Python values *)

None == {}
Some(x) == {x}

Now == "2026-01-01T00:00:00"

\* 1.0 as a number of thousandths
One == 1000

\* str.replace(old, new) on a sequence of characters: leftmost first,
\* non-overlapping
RECURSIVE StrReplace(_, _, _)
StrReplace(s, old, new) ==
    IF Len(s) < Len(old) THEN s
    ELSE IF SubSeq(s, 1, Len(old)) = old
         THEN new \o StrReplace(SubSeq(s, Len(old) + 1, Len(s)), old, new)
         ELSE <<Head(s)>> \o StrReplace(Tail(s), old, new)

\* the input directory's files (input_dir.glob("**/*.dfy")): distinct paths
PathA == [parent |-> "in", stem |-> <<"a">>]
PathB == [parent |-> "in", stem |-> <<"b">>]

FileLists == { <<PathA>>, <<PathA, PathB>> }

-----------------------------------------------------------------------------
(* BatchItem and BatchManager *)

\* @dataclass BatchItem with its defaults
BatchItem(input_file, output_dir) ==
    [ input_file       |-> input_file,
      output_dir       |-> output_dir,
      status           |-> "pending",
      conversion_score |-> None,
      validation_score |-> None,
      test_success     |-> None,
      error_message    |-> None,
      start_time       |-> None,
      end_time         |-> None,
      retry_count      |-> 0,
      notes            |-> <<>> ]

MaxSafeName == 50
KeptSafeName == 47

get_output_path_for_file(input_file) ==
    LET safe_name == StrReplace(
                         StrReplace(input_file.stem,
                                    <<"_", "t", "m", "p", "_", "t", "m", "p">>, <<"_">>),
                         <<"t", "m", "p", "_">>, <<>>)
    IN  [ parent |-> "converted",
          stem   |-> IF Len(safe_name) > MaxSafeName
                     THEN SubSeq(safe_name, 1, KeptSafeName) \o <<".", ".", ".">>
                     ELSE safe_name ]

\* the position of the first item whose input_file is f, 0 when there is none
\* (for item in self.items: if item.input_file == input_file: ...; break)
FirstIndex(its, f) ==
    IF \E k \in 1..Len(its) : its[k].input_file = f
    THEN CHOOSE k \in 1..Len(its) :
            /\ its[k].input_file = f
            /\ \A j \in 1..(k - 1) : its[j].input_file # f
    ELSE 0

\* the input files of the items in status st
PathsWithStatus(its, st) ==
    { its[k].input_file : k \in { j \in 1..Len(its) : its[j].status = st } }

-----------------------------------------------------------------------------
(* The progress file: json.dump of asdict(item), json.load and the         *)
(* BatchItem constructor                                                   *)

JNull == [t |-> "null"]
JValue(kind, x) == [t |-> kind, v |-> x]

\* json.dump of an Optional value: None is null, anything else by its type
JOptional(kind, opt) ==
    IF opt = None THEN JNull ELSE JValue(kind, CHOOSE x \in opt : TRUE)

\* json.load of a value: null is None
PyValue(j) == IF j.t = "null" THEN None ELSE Some(j.v)

\* asdict(item), as json.dump writes it
ItemToJson(item) ==
    [ input_file       |-> JValue("string", item.input_file),
      output_dir       |-> JValue("string", item.output_dir),
      status           |-> JValue("string", item.status),
      conversion_score |-> JOptional("number", item.conversion_score),
      validation_score |-> JOptional("number", item.validation_score),
      test_success     |-> JOptional("boolean", item.test_success),
      error_message    |-> JOptional("string", item.error_message),
      start_time       |-> JOptional("string", item.start_time),
      end_time         |-> JOptional("string", item.end_time),
      retry_count      |-> JValue("number", item.retry_count),
      notes            |-> JValue("string", item.notes) ]

\* a loader that leaves retry_count at the dataclass default
ItemFromJson_DefaultRetryCount(d) ==
    [ input_file       |-> d.input_file.v,
      output_dir       |-> d.output_dir.v,
      status           |-> d.status.v,
      conversion_score |-> PyValue(d.conversion_score),
      validation_score |-> PyValue(d.validation_score),
      test_success     |-> PyValue(d.test_success),
      error_message    |-> PyValue(d.error_message),
      start_time       |-> PyValue(d.start_time),
      end_time         |-> PyValue(d.end_time),
      retry_count      |-> 0,
      notes            |-> d.notes.v ]

\* the BatchItem constructor called on the keywords json.load returns
ItemFromJson(d) ==
    [ input_file       |-> d.input_file.v,
      output_dir       |-> d.output_dir.v,
      status           |-> d.status.v,
      conversion_score |-> PyValue(d.conversion_score),
      validation_score |-> PyValue(d.validation_score),
      test_success     |-> PyValue(d.test_success),
      error_message    |-> PyValue(d.error_message),
      start_time       |-> PyValue(d.start_time),
      end_time         |-> PyValue(d.end_time),
      retry_count      |-> d.retry_count.v,
      notes            |-> d.notes.v ]

BatchName == "batch_001"

\* A BatchManager is a record self = [items, completed_files, progress_file];
\* progress_file is the content of <batch_name>_progress.json, None when the
\* file does not exist.

\* save_progress: the progress file is rewritten from self.items
save_progress(self, now) ==
    [self EXCEPT !.progress_file =
        Some([ batch_name   |-> BatchName,
               last_updated |-> JValue("string", now),
               items        |-> [k \in 1..Len(self.items) |-> ItemToJson(self.items[k])] ])]

\* A write that fails part-way leaves a prefix of the document: the text up
\* to and including its first n items, and no closing brackets.
Truncated(document, n) ==
    [ batch_name   |-> document.batch_name,
      last_updated |-> document.last_updated,
      items        |-> SubSeq(document.items, 1, n),
      cut          |-> "Expecting ',' delimiter" ]

\* json.load returns a value for a whole document and raises on a prefix
Decodes(content) == "cut" \notin DOMAIN content

\* a loader that keeps the items it could read from an undecodable file
load_progress_KeepsReadItems(self) ==
    IF self.progress_file = None THEN self
    ELSE LET progress_data == CHOOSE d \in self.progress_file : TRUE
             loaded == [k \in 1..Len(progress_data.items) |->
                            ItemFromJson(progress_data.items[k])]
         IN  [self EXCEPT !.items = loaded,
                          !.completed_files = PathsWithStatus(loaded, "completed")]

\* load_progress: the items and the completed-index are restored from the
\* progress file when it exists; when it cannot be decoded the exception is
\* logged and both are empty
load_progress(self) ==
    IF self.progress_file = None THEN self
    ELSE LET progress_data == CHOOSE d \in self.progress_file : TRUE
             loaded == [k \in 1..Len(progress_data.items) |->
                            ItemFromJson(progress_data.items[k])]
         IN  IF Decodes(progress_data)
             THEN [self EXCEPT !.items = loaded,
                               !.completed_files = PathsWithStatus(loaded, "completed")]
             ELSE [self EXCEPT !.items = <<>>, !.completed_files = {}]

\* BatchManager.__init__ on the progress file of the batch name
BatchManager(progress_file) ==
    load_progress([ items |-> <<>>, completed_files |-> {},
                    progress_file |-> progress_file ])

\* the loop of add_files
RECURSIVE AppendFiles(_, _, _)
AppendFiles(its, completed, input_files) ==
    IF input_files = <<>> THEN its
    ELSE LET input_file == Head(input_files)
             item == BatchItem(input_file, get_output_path_for_file(input_file))
             added == IF item.input_file \in completed
                      THEN [item EXCEPT !.status = "completed"]
                      ELSE [item EXCEPT !.status = "pending"]
         IN  AppendFiles(Append(its, added), completed, Tail(input_files))

add_files(self, input_files, now) ==
    save_progress([self EXCEPT !.items =
                      AppendFiles(self.items, self.completed_files, input_files)], now)

\* the pending items, as references (positions) into items
get_pending_files(its) ==
    LET RECURSIVE Pick(_)
        Pick(k) == IF k > Len(its) THEN <<>>
                   ELSE IF its[k].status = "pending" THEN <<k>> \o Pick(k + 1)
                   ELSE Pick(k + 1)
    IN  Pick(1)

\* mark_running without the break: every item of the path is set running
mark_running_NoBreak(self, input_file, now) ==
    save_progress(
        [self EXCEPT !.items =
            [k \in 1..Len(self.items) |->
                IF self.items[k].input_file = input_file
                THEN [self.items[k] EXCEPT !.status = "running",
                                            !.start_time = Some(now)]
                ELSE self.items[k]]], now)

mark_running(self, input_file, now) ==
    LET k == FirstIndex(self.items, input_file)
    IN  save_progress(
            IF k = 0 THEN self
            ELSE [self EXCEPT !.items[k].status = "running",
                              !.items[k].start_time = Some(now)], now)

mark_completed(self, input_file, conversion_score, validation_score, test_success, error_message, notes, now) ==
    LET k == FirstIndex(self.items, input_file)
    IN  save_progress(
            IF k = 0 THEN self
            ELSE [self EXCEPT !.items[k].status = "completed",
                              !.items[k].conversion_score = Some(conversion_score),
                              !.items[k].validation_score = Some(validation_score),
                              !.items[k].test_success = Some(test_success),
                              !.items[k].error_message = error_message,
                              !.items[k].notes = notes,
                              !.items[k].end_time = Some(now),
                              !.completed_files = @ \cup {input_file}], now)

\* mark_failed without the increment of retry_count
mark_failed_NoIncrement(self, input_file, error_message, notes, now) ==
    LET k == FirstIndex(self.items, input_file)
    IN  save_progress(
            IF k = 0 THEN self
            ELSE [self EXCEPT !.items[k].status = "failed",
                              !.items[k].error_message = Some(error_message),
                              !.items[k].notes = notes,
                              !.items[k].end_time = Some(now)], now)

mark_failed(self, input_file, error_message, notes, now) ==
    LET k == FirstIndex(self.items, input_file)
    IN  save_progress(
            IF k = 0 THEN self
            ELSE [self EXCEPT !.items[k].status = "failed",
                              !.items[k].error_message = Some(error_message),
                              !.items[k].notes = notes,
                              !.items[k].end_time = Some(now),
                              !.items[k].retry_count = @ + 1], now)

\* mark_skipped without the save_progress call
mark_skipped_NoSave(self, input_file, reason, now) ==
    LET k == FirstIndex(self.items, input_file)
    IN  IF k = 0 THEN self
        ELSE [self EXCEPT !.items[k].status = "skipped",
                          !.items[k].notes = reason,
                          !.items[k].end_time = Some(now)]

mark_skipped(self, input_file, reason, now) ==
    LET k == FirstIndex(self.items, input_file)
    IN  save_progress(
            IF k = 0 THEN self
            ELSE [self EXCEPT !.items[k].status = "skipped",
                              !.items[k].notes = reason,
                              !.items[k].end_time = Some(now)], now)

\* reset_failed_files that also starts the retry count again
reset_failed_files_ClearsRetries(self, now) ==
    save_progress(
        [self EXCEPT !.items =
            [k \in 1..Len(self.items) |->
                IF self.items[k].status = "failed"
                THEN [self.items[k] EXCEPT !.status = "pending",
                                           !.error_message = None,
                                           !.notes = <<>>,
                                           !.start_time = None,
                                           !.end_time = None,
                                           !.retry_count = 0]
                ELSE self.items[k]]], now)

reset_failed_files(self, now) ==
    save_progress(
        [self EXCEPT !.items =
            [k \in 1..Len(self.items) |->
                IF self.items[k].status = "failed"
                THEN [self.items[k] EXCEPT !.status = "pending",
                                           !.error_message = None,
                                           !.notes = <<>>,
                                           !.start_time = None,
                                           !.end_time = None]
                ELSE self.items[k]]], now)

\* save_progress raises (open or a write fails, OSError): the operation has
\* changed the instance from self to mutated in memory; the progress file is
\* untouched (open failed), cut short (json.dump failed), or whole (the
\* write of the summary file failed).  The set of the instances it can leave.
SaveRaises(self, mutated, now) ==
    LET document == CHOOSE d \in save_progress(mutated, now).progress_file : TRUE
        cuts == ({0} \cup {Len(mutated.items) - 1}) \ {-1}
    IN  { [mutated EXCEPT !.progress_file = f] :
            f \in {self.progress_file, Some(document)}
                  \cup { Some(Truncated(document, n)) : n \in cuts } }

\* the exception save_progress raises: type(e).__name__ and str(e)
SaveError == [ type |-> "OSError", message |-> "[Errno 28] No space left on device" ]

-----------------------------------------------------------------------------
(* The conversion service as the batch run sees it: convert_single_file    *)
(* returns a ConversionPipelineResult and never raises.                    *)

PipelineResult(success, error_message, validation, testing) ==
    [ success |-> success, error_message |-> error_message,
      validation |-> validation, testing |-> testing ]

NoResult == PipelineResult(FALSE, None, None, None)

\* ConverterConfig, with the fields the service reads
ConverterConfig(enable_validation, enable_test_generation) ==
    [ enable_validation |-> enable_validation,
      enable_test_generation |-> enable_test_generation ]

Outcomes ==
    { PipelineResult(TRUE, None, Some(900), Some(TRUE)),
      \* the tests fail and the validation score is not above 0.5
      PipelineResult(TRUE, None, Some(350), Some(FALSE)),
      PipelineResult(TRUE, None, None, None),
      PipelineResult(FALSE, Some("quota exceeded"), None, None),
      \* str(e) of an exception raised without arguments
      PipelineResult(FALSE, Some(""), None, None),
      PipelineResult(FALSE, None, None, None) }

\* f"{validation_score:.3f}" of a score in thousandths
Format3f(v) ==
    <<ToString(v \div One), ".", ToString((v \div 100) % 10),
      ToString((v \div 10) % 10), ToString(v % 10)>>

\* a string is a sequence of pieces of text
CompletedNotes(validation_score) ==
    <<"Successfully converted with validation score ">> \o Format3f(validation_score)

-----------------------------------------------------------------------------
(* The heuristic validator (src/src/core/validators/heuristic_validator.py) *)
(*                                                                         *)
(* A float is an exact fraction [n, d] in lowest terms, n >= 0 and d > 0. *)
(* A text is a sequence of tokens: words and the punctuation the regular   *)
(* expressions look for; two adjacent words are separated by white space.  *)

RECURSIVE GCD(_, _)
GCD(a, b) == IF b = 0 THEN a ELSE GCD(b, a % b)

\* the fraction n/d in lowest terms
Frac(n, d) == [n |-> n \div GCD(n, d), d |-> d \div GCD(n, d)]
Zero == Frac(0, 1)
Unit == Frac(1, 1)
Half == Frac(1, 2)

FAdd(a, b) == Frac(a.n * b.d + b.n * a.d, a.d * b.d)
FMul(a, b) == Frac(a.n * b.n, a.d * b.d)
FEq(a, b) == a.n * b.d = b.n * a.d
FLess(a, b) == a.n * b.d < b.n * a.d
FLeq(a, b) == a.n * b.d <= b.n * a.d
FMin(a, b) == IF FLeq(a, b) THEN a ELSE b

Punctuation == {"(", ")", "{", "}", ";", "/*@", "*/", "//@"}

\* \w+ matches the token
IsWord(token) == token \notin Punctuation

\* the position of the first token t at or after position p, 0 when none
Find(text, t, p) ==
    IF \E k \in p..Len(text) : text[k] = t
    THEN CHOOSE k \in p..Len(text) :
            text[k] = t /\ \A j \in p..(k - 1) : text[j] # t
    ELSE 0

\* re.findall(r'method\s+(\w+)\s*\([^)]*\)', text)
RECURSIVE FindMethods(_, _)
FindMethods(text, p) ==
    IF p > Len(text) THEN <<>>
    ELSE IF /\ text[p] = "method"
            /\ p + 2 <= Len(text)
            /\ IsWord(text[p + 1])
            /\ text[p + 2] = "("
            /\ Find(text, ")", p + 3) # 0
         THEN <<text[p + 1]>> \o FindMethods(text, Find(text, ")", p + 3) + 1)
         ELSE FindMethods(text, p + 1)

\* re.findall(r'\w+\s+(\w+)\s*\([^)]*\)\s*{', text)
RECURSIVE FindFunctions(_, _)
FindFunctions(text, p) ==
    IF p > Len(text) THEN <<>>
    ELSE LET close == Find(text, ")", p + 3)
         IN  IF /\ p + 2 <= Len(text)
                /\ IsWord(text[p])
                /\ IsWord(text[p + 1])
                /\ text[p + 2] = "("
                /\ close # 0
                /\ close + 1 <= Len(text)
                /\ text[close + 1] = "{"
             THEN <<text[p + 1]>> \o FindFunctions(text, close + 2)
             ELSE FindFunctions(text, p + 1)

\* len(re.findall(r'/\*@.*?\*/', text, re.DOTALL))
RECURSIVE CountAcslBlocks(_, _)
CountAcslBlocks(text, p) ==
    IF p > Len(text) THEN 0
    ELSE IF text[p] = "/*@" /\ Find(text, "*/", p + 1) # 0
         THEN 1 + CountAcslBlocks(text, Find(text, "*/", p + 1) + 1)
         ELSE CountAcslBlocks(text, p + 1)

\* len(re.findall(keyword + r'\s+[^;]+;', text)) for requires and ensures
RECURSIVE CountClauses(_, _, _)
CountClauses(text, keyword, p) ==
    IF p > Len(text) THEN 0
    ELSE IF /\ text[p] = keyword
            /\ p + 1 <= Len(text)
            /\ text[p + 1] # ";"
            /\ Find(text, ";", p + 2) # 0
         THEN 1 + CountClauses(text, keyword, Find(text, ";", p + 2) + 1)
         ELSE CountClauses(text, keyword, p + 1)

\* TestConfig.validation_rules, the default weights
validation_rules ==
    [ function_signatures |-> Frac(25, 100),
      acsl_annotations    |-> Frac(35, 100),
      tests_passed        |-> Frac(40, 100) ]

\* the number of positions of names whose name is among found
Preserved(names, found) ==
    Cardinality({ k \in 1..Len(names) : \E j \in 1..Len(found) : found[j] = names[k] })

\* _check_function_signatures_detailed: the score and reasons['score']
check_function_signatures_detailed(dafny, c) ==
    LET dafny_methods == FindMethods(dafny, 1)
        c_functions == FindFunctions(c, 1)
        score == Frac(Preserved(dafny_methods, c_functions), Len(dafny_methods))
    IN  IF dafny_methods = <<>> THEN [score |-> Zero, reasons_score |-> Zero]
        ELSE IF c_functions = <<>> THEN [score |-> Zero, reasons_score |-> Zero]
        ELSE [score |-> score, reasons_score |-> score]

\* the annotation check without the 0.8 of a target that has ACSL blocks for a
\* source without contracts
check_acsl_annotations_detailed_NoPenalty(dafny, c) ==
    LET c_acsl_count == CountAcslBlocks(c, 1)
        dafny_requires == CountClauses(dafny, "requires", 1)
        dafny_ensures == CountClauses(dafny, "ensures", 1)
        c_requires == CountClauses(c, "requires", 1)
        c_ensures == CountClauses(c, "ensures", 1)
        requires_ratio == IF dafny_requires > 0
                          THEN Frac(c_requires, dafny_requires) ELSE Unit
        ensures_ratio == IF dafny_ensures > 0
                         THEN Frac(c_ensures, dafny_ensures) ELSE Unit
        conversion_ratio ==
            IF dafny_requires > 0 /\ dafny_ensures > 0
            THEN FMul(FAdd(requires_ratio, ensures_ratio), Half)
            ELSE IF dafny_requires > 0 THEN requires_ratio
            ELSE IF dafny_ensures > 0 THEN ensures_ratio
            ELSE Unit
        with_bonus == IF c_acsl_count > 0
                      THEN FMin(FAdd(conversion_ratio, Frac(1, 10)), Unit)
                      ELSE conversion_ratio
    IN  IF dafny_requires + dafny_ensures = 0
        THEN IF c_acsl_count = 0
             THEN [score |-> Unit, reasons_score |-> Zero]
             ELSE [score |-> Unit, reasons_score |-> Zero]
        ELSE [score |-> with_bonus, reasons_score |-> with_bonus]

\* _check_acsl_annotations_detailed: the score and reasons['score']
check_acsl_annotations_detailed(dafny, c) ==
    LET c_acsl_count == CountAcslBlocks(c, 1)
        dafny_requires == CountClauses(dafny, "requires", 1)
        dafny_ensures == CountClauses(dafny, "ensures", 1)
        c_requires == CountClauses(c, "requires", 1)
        c_ensures == CountClauses(c, "ensures", 1)
        requires_ratio == IF dafny_requires > 0
                          THEN Frac(c_requires, dafny_requires) ELSE Unit
        ensures_ratio == IF dafny_ensures > 0
                         THEN Frac(c_ensures, dafny_ensures) ELSE Unit
        conversion_ratio ==
            IF dafny_requires > 0 /\ dafny_ensures > 0
            THEN FMul(FAdd(requires_ratio, ensures_ratio), Half)
            ELSE IF dafny_requires > 0 THEN requires_ratio
            ELSE IF dafny_ensures > 0 THEN ensures_ratio
            ELSE Unit
        with_bonus == IF c_acsl_count > 0
                      THEN FMin(FAdd(conversion_ratio, Frac(1, 10)), Unit)
                      ELSE conversion_ratio
    IN  IF dafny_requires + dafny_ensures = 0
        THEN IF c_acsl_count = 0
             THEN [score |-> Unit, reasons_score |-> Zero]
             ELSE [score |-> Frac(8, 10), reasons_score |-> Zero]
        ELSE [score |-> with_bonus, reasons_score |-> with_bonus]

\* a validator with the weight of the tests left out of the sum
validate_conversion_WithoutTests(dafny, c, test) ==
    LET sig == check_function_signatures_detailed(dafny, c)
        acsl == check_acsl_annotations_detailed(dafny, c)
        score == FAdd(FMul(sig.score, validation_rules.function_signatures),
                      FMul(acsl.score, validation_rules.acsl_annotations))
    IN  [ score    |-> score,
          is_valid |-> FLess(Half, score),
          issues   |-> IF FLess(Half, score) THEN <<>>
                       ELSE <<"Validation score too low">>,
          metadata |->
            [ detailed_scores |->
                [ function_signatures |-> sig.score,
                  acsl_annotations    |-> acsl.score,
                  tests_passed        |-> test ],
              validation_reasons |->
                [ function_signatures |-> sig.reasons_score,
                  acsl_annotations    |-> acsl.reasons_score,
                  tests_passed        |-> test ] ] ]

\* validate_conversion(dafny_code, c_code, test_score=test)
validate_conversion(dafny, c, test) ==
    LET sig == check_function_signatures_detailed(dafny, c)
        acsl == check_acsl_annotations_detailed(dafny, c)
        score == FAdd(FAdd(FMul(sig.score, validation_rules.function_signatures),
                           FMul(acsl.score, validation_rules.acsl_annotations)),
                      FMul(test, validation_rules.tests_passed))
    IN  [ score    |-> score,
          is_valid |-> FLess(Half, score),
          issues   |-> IF FLess(Half, score) THEN <<>>
                       ELSE <<"Validation score too low">>,
          metadata |->
            [ detailed_scores |->
                [ function_signatures |-> sig.score,
                  acsl_annotations    |-> acsl.score,
                  tests_passed        |-> test ],
              validation_reasons |->
                [ function_signatures |-> sig.reasons_score,
                  acsl_annotations    |-> acsl.reasons_score,
                  tests_passed        |-> test ] ] ]

-----------------------------------------------------------------------------
(* The live instance and the history *)

\* the BatchManager the variables hold
Self == [ items |-> items, completed_files |-> completed_files, progress_file |-> disk ]

\* the variables after an operation that returns the BatchManager s
Becomes(s) ==
    /\ items' = s.items
    /\ completed_files' = s.completed_files
    /\ disk' = s.progress_file

\* intoFailed after a ledger operation that takes the items from its to new
CountIntoFailed(its, new) ==
    [k \in 1..Len(new) |->
        IF k > Len(its) THEN 0
        ELSE intoFailed[k]
             + (IF its[k].status # "failed" /\ new[k].status = "failed" THEN 1 ELSE 0)]

\* a ledger operation named op has returned the BatchManager s
Returned(op, s) ==
    /\ Becomes(s)
    /\ lastOp' = op
    /\ intoFailed' = CountIntoFailed(items, s.items)

\* the item the loop is at
CurrentFile == items[files_to_process[i]].input_file

\* no batch_convert call is under way
ServiceIdle ==
    /\ converter_config = ConverterConfig(TRUE, TRUE)
    /\ pipeline = <<>>
    /\ save_results = TRUE
    /\ results = <<>>
    /\ raised = None
    /\ archive = {}
    /\ calls = <<>>

\* get_progress_summary has not been called
SummaryIdle == summary = None

\* validate_conversion has not been called
ValidatorIdle ==
    /\ dafny_code = <<>>
    /\ c_code = <<>>
    /\ test_score = Zero
    /\ validation_result = None

Idle == ServiceIdle /\ SummaryIdle /\ ValidatorIdle

\* the variables of the batch run and of the ledger
batch == <<items, completed_files, disk, reset_failed, files_to_process, i,
           result, dafny_files, transformed, startCompleted, startFailed,
           startOpen, lastOp, intoFailed>>

\* no batch run and no ledger
NoBatch ==
    /\ items = <<>>
    /\ completed_files = {}
    /\ disk = None
    /\ reset_failed = FALSE
    /\ files_to_process = <<>>
    /\ i = 0
    /\ result = NoResult
    /\ dafny_files = <<>>
    /\ transformed = <<>>
    /\ startCompleted = {}
    /\ startFailed = {}
    /\ startOpen = {}
    /\ lastOp = "none"
    /\ intoFailed = <<>>

-----------------------------------------------------------------------------
(* The batch run: run_batch_conversion *)

Init ==
    /\ items = <<>>
    /\ completed_files = {}
    /\ disk = None
    /\ pc = "off"
    /\ reset_failed = FALSE
    /\ files_to_process = <<>>
    /\ i = 0
    /\ result = NoResult
    /\ dafny_files \in FileLists
    /\ transformed = <<>>
    /\ startCompleted = {}
    /\ startFailed = {}
    /\ startOpen = {}
    /\ lastOp = "none"
    /\ intoFailed = <<>>
    /\ Idle

\* batch_manager = BatchManager(batch_name, output_dir), in a new process;
\* a run starts only when its ledger will hold at most longest items
ConstructWithin(longest) ==
    /\ pc \in {"off", "done", "raised"}
    /\ Len(BatchManager(disk).items) + Len(dafny_files) <= longest
    /\ \E flag \in BOOLEAN : reset_failed' = flag
    /\ Becomes(BatchManager(disk))
    /\ pc' = "add"
    /\ files_to_process' = <<>>
    /\ i' = 0
    /\ result' = NoResult
    /\ transformed' = <<>>
    /\ startCompleted' = PathsWithStatus(items', "completed")
    /\ startFailed' = PathsWithStatus(items', "failed")
    /\ startOpen' = { k \in 1..Len(items') : items'[k].status \in {"pending", "running"} }
    /\ lastOp' = "load_progress"
    /\ UNCHANGED <<standalone, dafny_files, intoFailed>>

Construct == ConstructWithin(MaxItems)

\* batch_manager.add_files(dafny_files)
AddFiles ==
    /\ pc = "add"
    /\ Returned("add_files", add_files(Self, dafny_files, Now))
    /\ pc' = "reset"
    /\ UNCHANGED <<standalone, reset_failed, files_to_process, i, result, dafny_files,
                   transformed, startCompleted, startFailed, startOpen>>

\* if reset_failed: batch_manager.reset_failed_files()
ResetFailed ==
    /\ pc = "reset"
    /\ reset_failed
    /\ Returned("reset_failed_files", reset_failed_files(Self, Now))
    /\ pc' = "select"
    /\ UNCHANGED <<standalone, reset_failed, files_to_process, i, result, dafny_files,
                   transformed, startCompleted, startFailed, startOpen>>

\* files_to_process = batch_manager.get_pending_files(); return when it is empty
GetPending ==
    /\ pc = "select" \/ (pc = "reset" /\ ~reset_failed)
    /\ files_to_process' = get_pending_files(items)
    /\ IF files_to_process' = <<>>
       THEN pc' = "done" /\ i' = 0
       ELSE pc' = "mark_running" /\ i' = 1
    /\ UNCHANGED <<standalone, items, completed_files, disk, reset_failed, result,
                   dafny_files, transformed, startCompleted, startFailed, startOpen,
                   lastOp, intoFailed>>

\* batch_manager.mark_running(item.input_file)
MarkRunning ==
    /\ pc = "mark_running"
    /\ Returned("mark_running", mark_running(Self, CurrentFile, Now))
    /\ pc' = "convert"
    /\ UNCHANGED <<standalone, reset_failed, files_to_process, i, result, dafny_files,
                   transformed, startCompleted, startFailed, startOpen>>

\* the files save_single_result writes for the result of dafny_file
SingleResult(dafny_file) == [ kind |-> "single", file |-> dafny_file ]

\* a conversion whose result saver writes its file over the progress file
Convert_SavesOverProgressFile ==
    /\ pc = "convert"
    /\ \E r \in Outcomes : result' = r
    /\ \E saved \in BOOLEAN :
         /\ result'.success => saved
         /\ archive' = IF saved THEN archive \cup {SingleResult(CurrentFile)}
                        ELSE archive
         /\ disk' = IF saved THEN None ELSE disk
    /\ transformed' = Append(transformed, CurrentFile)
    /\ pc' = "record"
    /\ UNCHANGED <<converter_config, pipeline, save_results, results, raised, calls,
                   summary, dafny_code, c_code, test_score, validation_result,
                   items, completed_files, reset_failed, files_to_process, i,
                   dafny_files, startCompleted, startFailed, startOpen, lastOp,
                   intoFailed>>

\* result = service.convert_single_file(input_file, output_path): the
\* transform is invoked on the file and a result comes back.  The service
\* saves every result of its success path; a failed result may come from a
\* save that raised after it wrote its first file.
Convert ==
    /\ pc = "convert"
    /\ \E r \in Outcomes : result' = r
    /\ \E saved \in BOOLEAN :
         /\ result'.success => saved
         /\ archive' = IF saved THEN archive \cup {SingleResult(CurrentFile)}
                        ELSE archive
    /\ transformed' = Append(transformed, CurrentFile)
    /\ pc' = "record"
    /\ UNCHANGED <<converter_config, pipeline, save_results, results, raised, calls,
                   summary, dafny_code, c_code, test_score, validation_result,
                   items, completed_files, disk, reset_failed, files_to_process, i,
                   dafny_files, startCompleted, startFailed, startOpen, lastOp,
                   intoFailed>>

\* the end of the loop body: the next item, or the code after the loop
Advance ==
    IF i = Len(files_to_process)
    THEN pc' = "finish" /\ i' = i
    ELSE pc' = "mark_running" /\ i' = i + 1

\* the call of mark_completed in the loop, on the result of the conversion
CompletedCall ==
    LET validation_score == IF result.validation # None
                            THEN CHOOSE v \in result.validation : TRUE ELSE 0
        test_success == IF result.testing # None
                        THEN CHOOSE t \in result.testing : TRUE ELSE FALSE
    IN  mark_completed(Self, CurrentFile, One, validation_score, test_success,
                       None, CompletedNotes(validation_score), Now)

\* the call of mark_failed in the else branch
FailedCall ==
    LET error_message == IF result.error_message # None /\ result.error_message # Some("")
                         THEN CHOOSE m \in result.error_message : TRUE
                         ELSE "Unknown error"
    IN  mark_failed(Self, CurrentFile, error_message, <<"Conversion failed">>, Now)

\* the call of mark_failed in the except branch, on the exception caught
ExceptCall ==
    mark_failed(Self, CurrentFile, SaveError.message,
                <<"Exception: ", SaveError.type>>, Now)

\* if result.conversion.success: batch_manager.mark_completed(...)
MarkCompleted ==
    /\ pc = "record"
    /\ result.success
    /\ Returned("mark_completed", CompletedCall)
    /\ Advance
    /\ UNCHANGED <<standalone, reset_failed, files_to_process, result, dafny_files,
                   transformed, startCompleted, startFailed, startOpen>>

\* else: batch_manager.mark_failed(...)
MarkFailed ==
    /\ pc = "record"
    /\ ~result.success
    /\ Returned("mark_failed", FailedCall)
    /\ Advance
    /\ UNCHANGED <<standalone, reset_failed, files_to_process, result, dafny_files,
                   transformed, startCompleted, startFailed, startOpen>>

\* after the loop: print_progress, export_detailed_results, create_readme; return
Finish ==
    /\ pc = "finish"
    /\ pc' = "done"
    /\ UNCHANGED <<standalone, items, completed_files, disk, reset_failed, files_to_process, i,
                   result, dafny_files, transformed, startCompleted, startFailed,
                   startOpen, lastOp, intoFailed>>

\* the process is interrupted between two steps: its memory is lost
Interrupt ==
    /\ pc \notin {"off", "done", "raised"}
    /\ pc' = "off"
    /\ items' = <<>>
    /\ completed_files' = {}
    /\ files_to_process' = <<>>
    /\ i' = 0
    /\ result' = NoResult
    /\ transformed' = <<>>
    /\ lastOp' = "none"
    /\ UNCHANGED <<standalone, disk, reset_failed, dafny_files, startCompleted, startFailed,
                   startOpen, intoFailed>>

Next ==
    \/ Construct
    \/ AddFiles
    \/ ResetFailed
    \/ GetPending
    \/ MarkRunning
    \/ Convert
    \/ MarkCompleted
    \/ MarkFailed
    \/ Finish
    \/ Interrupt

Spec == Init /\ [][Next]_vars

-----------------------------------------------------------------------------
(* The batch run on a file system whose writes can fail: save_progress     *)
(* raises inside a ledger operation.  Inside the try of the loop the       *)
(* exception is caught (pc = "except"); anywhere else it ends the run      *)
(* (pc = "raised").                                                        *)

\* the longest ledger a batch run is started on when saves can fail
MaxFaultItems == 2

FaultConstruct == ConstructWithin(MaxFaultItems)

\* the ledger operation the run is about to call
LedgerCall ==
    CASE pc = "add" -> add_files(Self, dafny_files, Now)
      [] pc = "reset" -> reset_failed_files(Self, Now)
      [] pc = "mark_running" -> mark_running(Self, CurrentFile, Now)
      [] pc = "record" -> IF result.success THEN CompletedCall ELSE FailedCall
      [] pc = "except" -> ExceptCall

\* the ledger operation changes the items and its save_progress raises
SaveProgressRaises ==
    /\ pc \in {"add", "reset", "mark_running", "record", "except"}
    /\ pc = "reset" => reset_failed
    /\ \E s \in SaveRaises(Self, LedgerCall, Now) :
          /\ Becomes(s)
          /\ intoFailed' = CountIntoFailed(items, s.items)
    /\ lastOp' = "save_progress_raised"
    /\ pc' = IF pc \in {"mark_running", "record"} THEN "except" ELSE "raised"
    /\ UNCHANGED <<standalone, reset_failed, files_to_process, i, result, dafny_files,
                   transformed, startCompleted, startFailed, startOpen>>

\* except Exception as e: batch_manager.mark_failed(...)
ExceptMarkFailed ==
    /\ pc = "except"
    /\ Returned("mark_failed", ExceptCall)
    /\ Advance
    /\ UNCHANGED <<standalone, reset_failed, files_to_process, result, dafny_files,
                   transformed, startCompleted, startFailed, startOpen>>

FaultNext ==
    \/ FaultConstruct
    \/ AddFiles
    \/ ResetFailed
    \/ GetPending
    \/ MarkRunning
    \/ Convert
    \/ MarkCompleted
    \/ MarkFailed
    \/ Finish
    \/ SaveProgressRaises
    \/ ExceptMarkFailed

FaultSpec == Init /\ [][FaultNext]_vars
-----------------------------------------------------------------------------
(* The batch run and the result archive: between two runs somebody may     *)
(* delete every file the result saver has written.                         *)

\* the longest ledger a run is started on when the archive may be deleted
MaxArchiveItems == 3

ArchiveConstruct == ConstructWithin(MaxArchiveItems)

\* every file of the archive is deleted while no run is under way
DeleteArchive ==
    /\ pc \in {"off", "done", "raised"}
    /\ archive # {}
    /\ archive' = {}
    /\ UNCHANGED <<batch, pc, converter_config, pipeline, save_results, results,
                   raised, calls, summary, dafny_code, c_code, test_score,
                   validation_result>>

ArchiveNext ==
    \/ ArchiveConstruct
    \/ AddFiles
    \/ ResetFailed
    \/ GetPending
    \/ MarkRunning
    \/ Convert
    \/ MarkCompleted
    \/ MarkFailed
    \/ Finish
    \/ Interrupt
    \/ DeleteArchive

ArchiveSpec == Init /\ [][ArchiveNext]_vars


-----------------------------------------------------------------------------
(* The ledger alone: a caller that constructs a BatchManager and calls its *)
(* operations in any order, with any arguments.  pc stays "api".           *)

\* the longest ledger add_files is called on
MaxApiItems == 2

\* the most failures recorded for one item
MaxRetries == 1

ApiPaths == {PathA, PathB}

ApiFrame == UNCHANGED <<standalone, pc, reset_failed, files_to_process, i, result, dafny_files,
                        transformed, startCompleted, startFailed, startOpen>>

ApiInit ==
    /\ items = <<>>
    /\ completed_files = {}
    /\ disk = None
    /\ pc = "api"
    /\ reset_failed = FALSE
    /\ files_to_process = <<>>
    /\ i = 0
    /\ result = NoResult
    /\ dafny_files = <<>>
    /\ transformed = <<>>
    /\ startCompleted = {}
    /\ startFailed = {}
    /\ startOpen = {}
    /\ lastOp = "load_progress"
    /\ intoFailed = <<>>
    /\ Idle

\* BatchManager(batch_name, output_dir) again: a fresh instance on the same file
ApiConstruct ==
    /\ Becomes(BatchManager(disk))
    /\ lastOp' = "load_progress"
    /\ UNCHANGED intoFailed
    /\ ApiFrame

ApiAddFiles ==
    \E input_files \in FileLists :
        /\ Len(items) + Len(input_files) <= MaxApiItems
        /\ Returned("add_files", add_files(Self, input_files, Now))
        /\ ApiFrame

ApiMarkRunning ==
    \E input_file \in ApiPaths :
        /\ Returned("mark_running", mark_running(Self, input_file, Now))
        /\ ApiFrame

ApiMarkCompleted ==
    \E input_file \in ApiPaths :
        /\ Returned("mark_completed",
                    mark_completed(Self, input_file, One, 900, TRUE, None,
                                   CompletedNotes(900), Now))
        /\ ApiFrame

ApiMarkFailed ==
    \E input_file \in ApiPaths :
        /\ FirstIndex(items, input_file) # 0 =>
              items[FirstIndex(items, input_file)].retry_count < MaxRetries
        /\ Returned("mark_failed",
                    mark_failed(Self, input_file, "quota exceeded",
                                <<"Conversion failed">>, Now))
        /\ ApiFrame

ApiMarkSkipped ==
    \E input_file \in ApiPaths :
        /\ Returned("mark_skipped",
                    mark_skipped(Self, input_file, <<"not a method">>, Now))
        /\ ApiFrame

ApiResetFailed ==
    /\ Returned("reset_failed_files", reset_failed_files(Self, Now))
    /\ ApiFrame

ApiNext ==
    \/ ApiConstruct
    \/ ApiAddFiles
    \/ ApiMarkRunning
    \/ ApiMarkCompleted
    \/ ApiMarkFailed
    \/ ApiMarkSkipped
    \/ ApiResetFailed

LedgerSpec == ApiInit /\ [][ApiNext]_vars

-----------------------------------------------------------------------------
(* The validator alone: validate_conversion called once on a source text,  *)
(* a target text and a test score.                                         *)

\* the most requires clauses, and the most ensures clauses, of a text
MaxClauses == 2

RECURSIVE Repeat(_, _)
Repeat(tokens, n) == IF n = 0 THEN <<>> ELSE tokens \o Repeat(tokens, n - 1)

RECURSIVE Declarations(_, _)
Declarations(keyword, names) ==
    IF names = <<>> THEN <<>>
    ELSE <<keyword, Head(names), "(", ")", "{", "y", ";", "}">>
         \o Declarations(keyword, Tail(names))

\* a Dafny text: a lemma with r requires and e ensures clauses, each closed by
\* a semicolon or not, then a method for each name
DafnyText(names, r, e, closed) ==
    LET semicolon == IF closed THEN <<";">> ELSE <<>>
    IN  <<"lemma", "L", "(", ")">>
        \o Repeat(<<"requires", "x">> \o semicolon, r)
        \o Repeat(<<"ensures", "y">> \o semicolon, e)
        \o <<"{", "}">>
        \o Declarations("method", names)

\* a C text: r requires and e ensures clauses, in one /*@ ... */ block or in
\* //@ line annotations, then a function for each name
CText(names, r, e, block) ==
    ( IF block
      THEN <<"/*@">> \o Repeat(<<"requires", "x", ";">>, r)
                     \o Repeat(<<"ensures", "y", ";">>, e) \o <<"*/">>
      ELSE Repeat(<<"//@", "requires", "x", ";">>, r)
           \o Repeat(<<"//@", "ensures", "y", ";">>, e) )
    \o Declarations("int", names)

DafnyTexts ==
    { DafnyText(names, r, e, closed) :
        names \in {<<>>, <<"foo">>, <<"foo", "bar">>},
        r \in 0..MaxClauses, e \in 0..MaxClauses, closed \in BOOLEAN }

CTexts ==
    { CText(names, r, e, block) :
        names \in {<<>>, <<"foo">>, <<"bar">>, <<"bar", "foo">>},
        r \in 0..MaxClauses, e \in 0..MaxClauses, block \in BOOLEAN }

\* test_score as convert_single_file computes it
TestScores == {Zero, Half, Unit}

ValidatorInit ==
    /\ NoBatch
    /\ ServiceIdle
    /\ SummaryIdle
    /\ pc = "validate"
    /\ dafny_code \in DafnyTexts
    /\ c_code \in CTexts
    /\ test_score \in TestScores
    /\ validation_result = None

\* validation_result = validator.validate_conversion(dafny_code, c_code, test_score=...)
ValidateConversion ==
    /\ pc = "validate"
    /\ validation_result' = Some(validate_conversion(dafny_code, c_code, test_score))
    /\ pc' = "validated"
    /\ UNCHANGED <<batch, converter_config, pipeline, save_results, results,
                   raised, archive, calls, summary,
                   dafny_code, c_code, test_score>>

ValidatorNext == ValidateConversion

ValidatorSpec == ValidatorInit /\ [][ValidatorNext]_vars

-----------------------------------------------------------------------------
(* The progress summary alone: get_progress_summary called once on a       *)
(* ledger.  The rates and averages are exact fractions; a score of the     *)
(* ledger is a number of thousandths.                                      *)

\* sum(values) for a sequence of numbers
RECURSIVE Sum(_)
Sum(values) == IF values = <<>> THEN 0 ELSE Head(values) + Sum(Tail(values))

\* [item.field for item in its if item.field is not None]
NotNone(its, field) ==
    LET kept == SelectSeq(its, LAMBDA item : item[field] # None)
    IN  [k \in 1..Len(kept) |-> CHOOSE x \in kept[k][field] : TRUE]

\* sum(values) for a sequence of booleans: True counts 1
Trues(values) == Cardinality({ k \in 1..Len(values) : values[k] })

\* the value of a present Optional
Value(opt) == CHOOSE x \in opt : TRUE

\* a summary that averages over the items of every status
get_progress_summary_OverAllItems(self) ==
    LET Count(st) == Len(SelectSeq(self.items, LAMBDA item : item.status = st))
        total == Len(self.items)
        completed_items == self.items
        conversion_scores == NotNone(completed_items, "conversion_score")
        validation_scores == NotNone(completed_items, "validation_score")
        test_successes == NotNone(completed_items, "test_success")
    IN  [ batch_name  |-> BatchName,
          total_files |-> total,
          completed   |-> Count("completed"),
          failed      |-> Count("failed"),
          pending     |-> Count("pending"),
          running     |-> Count("running"),
          skipped     |-> Count("skipped"),
          completion_rate |->
              IF total > 0 THEN Frac(Count("completed"), total) ELSE Zero,
          avg_conversion_score |->
              IF completed_items # <<>> /\ conversion_scores # <<>>
              THEN Frac(Sum(conversion_scores), One * Len(conversion_scores))
              ELSE Zero,
          avg_validation_score |->
              IF completed_items # <<>> /\ validation_scores # <<>>
              THEN Frac(Sum(validation_scores), One * Len(validation_scores))
              ELSE Zero,
          test_success_rate |->
              IF completed_items # <<>> /\ test_successes # <<>>
              THEN Frac(Trues(test_successes), Len(test_successes))
              ELSE Zero,
          last_updated |-> Now ]

get_progress_summary(self) ==
    LET Count(st) == Len(SelectSeq(self.items, LAMBDA item : item.status = st))
        total == Len(self.items)
        completed_items ==
            SelectSeq(self.items, LAMBDA item : item.status = "completed")
        conversion_scores == NotNone(completed_items, "conversion_score")
        validation_scores == NotNone(completed_items, "validation_score")
        test_successes == NotNone(completed_items, "test_success")
    IN  [ batch_name  |-> BatchName,
          total_files |-> total,
          completed   |-> Count("completed"),
          failed      |-> Count("failed"),
          pending     |-> Count("pending"),
          running     |-> Count("running"),
          skipped     |-> Count("skipped"),
          completion_rate |->
              IF total > 0 THEN Frac(Count("completed"), total) ELSE Zero,
          avg_conversion_score |->
              IF completed_items # <<>> /\ conversion_scores # <<>>
              THEN Frac(Sum(conversion_scores), One * Len(conversion_scores))
              ELSE Zero,
          avg_validation_score |->
              IF completed_items # <<>> /\ validation_scores # <<>>
              THEN Frac(Sum(validation_scores), One * Len(validation_scores))
              ELSE Zero,
          test_success_rate |->
              IF completed_items # <<>> /\ test_successes # <<>>
              THEN Frac(Trues(test_successes), Len(test_successes))
              ELSE Zero,
          last_updated |-> Now ]

\* the longest ledger the summary is taken of, the example apart
MaxSummaryItems == 3

\* an item as the ledger operations and the loader leave it
ItemOf(status, conversion_score, validation_score, test_success) ==
    [BatchItem(PathA, get_output_path_for_file(PathA)) EXCEPT
        !.status = status,
        !.conversion_score = conversion_score,
        !.validation_score = validation_score,
        !.test_success = test_success]

SummaryItems ==
    { ItemOf("pending", None, None, None),
      ItemOf("running", None, None, None),
      ItemOf("skipped", None, None, None),
      ItemOf("failed", None, None, None),
      ItemOf("failed", Some(One), Some(800), Some(TRUE)),
      ItemOf("completed", Some(One), Some(One), Some(TRUE)),
      ItemOf("completed", Some(One), Some(600), Some(FALSE)),
      ItemOf("completed", None, None, None) }

\* 6 completed items with validation scores 1.0, 1.0, 0.8, 0.8, 0.6, 0.6 and
\* 4 pending items
ExampleLedger ==
    [k \in 1..10 |->
        IF k <= 6
        THEN ItemOf("completed", Some(One), Some(One - 200 * ((k - 1) \div 2)), Some(TRUE))
        ELSE ItemOf("pending", None, None, None)]

Ledgers ==
    UNION { [1..n -> SummaryItems] : n \in 0..MaxSummaryItems } \cup {ExampleLedger}

SummaryInit ==
    /\ items \in Ledgers
    /\ completed_files = PathsWithStatus(items, "completed")
    /\ disk = save_progress([ items |-> items, completed_files |-> completed_files,
                               progress_file |-> None ], Now).progress_file
    /\ pc = "summary"
    /\ reset_failed = FALSE
    /\ files_to_process = <<>>
    /\ i = 0
    /\ result = NoResult
    /\ dafny_files = <<>>
    /\ transformed = <<>>
    /\ startCompleted = {}
    /\ startFailed = {}
    /\ startOpen = {}
    /\ lastOp = "none"
    /\ intoFailed = <<>>
    /\ ServiceIdle
    /\ SummaryIdle
    /\ ValidatorIdle

\* summary = batch_manager.get_progress_summary()
GetProgressSummary ==
    /\ pc = "summary"
    /\ summary' = Some(get_progress_summary(Self))
    /\ pc' = "summarised"
    /\ UNCHANGED <<batch, converter_config, pipeline, save_results, results,
                   raised, archive, calls, dafny_code,
                   c_code, test_score, validation_result>>

SummaryNext == GetProgressSummary

SummarySpec == SummaryInit /\ [][SummaryNext]_vars

-----------------------------------------------------------------------------
(* The conversion service alone                                            *)
(* (src/src/core/services/conversion_service.py): one batch_convert call.  *)
(* For each file of the list, `pipeline` holds what the converter, the     *)
(* tester, the file system and the result saver do when the service calls  *)
(* them for that file.  A message is a sequence of words.                  *)

\* an exception: type(e).__name__ and str(e)
Exception(type, message) == [ type |-> type, message |-> message ]

\* what a call does: it raises an exception or it returns a value
Raises(e) == [ raises |-> Some(e), returns |-> None ]

Returns(v) == [ raises |-> None, returns |-> Some(v) ]

\* a dictionary is a function of its keys; {} is the function of no key
EmptyDict == <<>>

\* ConversionResult; metadata is never given, __post_init__ makes it {}
ConversionResult(success, code, test_code, error_message) ==
    [ success |-> success, c_code |-> code, test_code |-> test_code,
      error_message |-> error_message, metadata |-> EmptyDict ]

\* TestResult, with the fields the service and the result saver read
TestResult(success, compiles, runs, error) ==
    [ success |-> success, compiles |-> compiles, runs |-> runs, error |-> error ]

\* ConversionPipelineResult; metadata None becomes {} in __post_init__
ConversionPipelineResult(conversion, validation, testing, metadata) ==
    [ conversion |-> conversion, validation |-> validation, testing |-> testing,
      metadata |-> IF metadata = None THEN EmptyDict ELSE Value(metadata) ]

\* bool(text) of an Optional[str]: None and "" are false
Truthy(text) == text # None /\ Value(text) # <<>>

\* word.lower(), for the words of the messages
Lower(word) ==
    CASE word = "Compilation" -> "compilation"
      [] word = "Execution" -> "execution"
      [] OTHER -> word

\* "compilation" in error.lower()
MentionsCompilation(error) ==
    \E k \in 1..Len(error) : Lower(error[k]) = "compilation"

\* the test score of Step 2
TestScore(test_result) ==
    IF test_result.success THEN Unit
    ELSE IF Truthy(test_result.error) /\ MentionsCompilation(Value(test_result.error))
         THEN Zero
         ELSE Half

\* a call the service makes to a collaborator
Call(op, arg) == [ op |-> op, arg |-> arg ]

\* the outcome of the try block of convert_single_file: the exception that
\* leaves it or the result it returns, and the calls made
Tried(raises, returns, made) == [ raises |-> raises, returns |-> returns, calls |-> made ]

\* "Save result if enabled", and the return of the try block
SaveResult(saving, b, outcome, made) ==
    IF ~saving THEN Tried(None, Some(outcome), made)
    ELSE IF b.save_single_result # None
    THEN Tried(b.save_single_result, None,
               made \o << Call("save_single_result", outcome) >>)
    ELSE Tried(None, Some(outcome), made \o << Call("save_single_result", outcome) >>)

\* "Step 3: Validate conversion with test score (if enabled)", then the result
Step3(config, saving, dafny_file, b, conversion_result, testing, score, made) ==
    IF ~config.enable_validation
    THEN SaveResult(saving, b,
                    ConversionPipelineResult(conversion_result, None, testing,
                                             Some([ input_file |-> dafny_file ])),
                    made)
    ELSE IF b.c_file = None
    THEN Tried(Some(Exception("FileNotFoundError",
                              <<"No", "such", "file", "or", "directory">>)),
               None, made \o << Call("read", "c_file") >>)
    ELSE SaveResult(saving, b,
                    ConversionPipelineResult(
                        conversion_result,
                        Some(validate_conversion(b.dafny_code,
                                                 Value(conversion_result.c_code),
                                                 score)),
                        testing, Some([ input_file |-> dafny_file ])),
                    made \o << Call("read", "c_file"), Call("read", "dafny_file"),
                               Call("validate_conversion", conversion_result.c_code) >>)

\* Step 2 with a condition that does not ask for test code
Step2_TestsWithoutTestCode(config, saving, dafny_file, b, conversion_result, made) ==
    IF ~config.enable_test_generation
    THEN Step3(config, saving, dafny_file, b, conversion_result, None, Zero, made)
    ELSE IF b.test_file # None
    THEN Tried(b.test_file, None, made \o << Call("open", "test_file") >>)
    ELSE IF b.compile_and_test.raises # None
    THEN Tried(b.compile_and_test.raises, None,
               made \o << Call("write", conversion_result.test_code),
                          Call("compile_and_test", dafny_file) >>)
    ELSE Step3(config, saving, dafny_file, b, conversion_result,
               b.compile_and_test.returns,
               TestScore(Value(b.compile_and_test.returns)),
               made \o << Call("write", conversion_result.test_code),
                          Call("compile_and_test", dafny_file) >>)

\* "Step 2: Test the converted code first (if enabled)"
Step2(config, saving, dafny_file, b, conversion_result, made) ==
    IF ~(config.enable_test_generation /\ Truthy(conversion_result.test_code))
    THEN Step3(config, saving, dafny_file, b, conversion_result, None, Zero, made)
    ELSE IF b.test_file # None
    THEN Tried(b.test_file, None, made \o << Call("open", "test_file") >>)
    ELSE IF b.compile_and_test.raises # None
    THEN Tried(b.compile_and_test.raises, None,
               made \o << Call("write", conversion_result.test_code),
                          Call("compile_and_test", dafny_file) >>)
    ELSE Step3(config, saving, dafny_file, b, conversion_result,
               b.compile_and_test.returns,
               TestScore(Value(b.compile_and_test.returns)),
               made \o << Call("write", conversion_result.test_code),
                          Call("compile_and_test", dafny_file) >>)

\* the try block without the return of Step 1: a conversion that reports a
\* failure goes on to Step 2
ConversionPipeline_NoShortCircuit(config, saving, dafny_file, b) ==
    IF b.convert_file.raises # None
    THEN Tried(b.convert_file.raises, None, << Call("convert_file", dafny_file) >>)
    ELSE Step2(config, saving, dafny_file, b, Value(b.convert_file.returns),
               << Call("convert_file", dafny_file) >>)

\* the try block of convert_single_file, from "Step 1: Convert Dafny to C".
\* b is what the collaborators do for dafny_file.
ConversionPipeline(config, saving, dafny_file, b) ==
    IF b.convert_file.raises # None
    THEN Tried(b.convert_file.raises, None, << Call("convert_file", dafny_file) >>)
    ELSE IF ~Value(b.convert_file.returns).success
    THEN Tried(None,
               Some(ConversionPipelineResult(Value(b.convert_file.returns), None,
                                             None, None)),
               << Call("convert_file", dafny_file) >>)
    ELSE Step2(config, saving, dafny_file, b, Value(b.convert_file.returns),
               << Call("convert_file", dafny_file) >>)

\* the except clause of convert_single_file: the result returned for the
\* outcome of the try block, and the calls made
Caught(tried) ==
    IF tried.raises = None
    THEN [ result |-> Value(tried.returns), calls |-> tried.calls ]
    ELSE [ result |->
             ConversionPipelineResult(
                 ConversionResult(FALSE, None, None,
                                  Some(Value(tried.raises).message)),
                 None, None, None),
           calls |-> tried.calls ]

\* convert_single_file: the result it returns, and the calls it made
convert_single_file(config, saving, dafny_file, b) ==
    Caught(ConversionPipeline(config, saving, dafny_file, b))

\* result.metadata.get('input_file', 'Unknown') if result.metadata else 'Unknown'
InputFile(r) ==
    IF "input_file" \in DOMAIN r.metadata THEN r.metadata.input_file
    ELSE <<"Unknown">>

\* score_ranges of generate_summary_report: range number n is [low, high)
score_ranges ==
    [ n \in 1..5 |-> [ low |-> Frac(n - 1, 5), high |-> Frac(n, 5) ] ]

\* the lines under "Failed Conversions:": for each result that is not a
\* success, in list order, its number, its input file and its error message
FailedConversions(rs) ==
    SelectSeq([ k \in 1..Len(rs) |->
                  [ index |-> k, success |-> rs[k].conversion.success,
                    input_file |-> InputFile(rs[k]),
                    error_message |-> rs[k].conversion.error_message ] ],
              LAMBDA line : ~line.success)

\* generate_summary_report: the report it writes (the counts of its header,
\* the number of validation scores in each range, the failed conversions), or
\* the exception of the division by len(results)
generate_summary_report(rs) ==
    IF Len(rs) = 0
    THEN Raises(Exception("ZeroDivisionError", <<"division", "by", "zero">>))
    ELSE Returns([ total |-> Len(rs),
                   successful_conversions |->
                       Cardinality({ k \in 1..Len(rs) : rs[k].conversion.success }),
                   successful_tests |->
                       Cardinality({ k \in 1..Len(rs) :
                                       /\ rs[k].testing # None
                                       /\ Value(rs[k].testing).success }),
                   distribution |->
                       [ n \in 1..5 |->
                           Cardinality({ k \in 1..Len(rs) :
                               /\ rs[k].validation # None
                               /\ FLeq(score_ranges[n].low, Value(rs[k].validation).score)
                               /\ FLess(Value(rs[k].validation).score,
                                        score_ranges[n].high) }) ],
                   failed |-> FailedConversions(rs) ])

\* the most files of a batch_convert call
MaxServiceFiles == 2

\* the texts of the files
SourceText == DafnyText(<<"foo">>, 1, 1, TRUE)

TargetText == CText(<<"foo">>, 1, 1, TRUE)

OtherTargetText == CText(<<"bar">>, 0, 0, TRUE)

TestText == <<"int", "main", "(", ")", "{", "}">>

Converted(test_code) == Returns(ConversionResult(TRUE, Some(TargetText), test_code, None))

\* what the collaborators do for one file
Behaviour(convert_file, compile_and_test, c_file, save_single_result) ==
    [ convert_file |-> convert_file, compile_and_test |-> compile_and_test,
      test_file |-> None, dafny_code |-> SourceText, c_file |-> c_file,
      save_single_result |-> save_single_result ]

Passed == Returns(TestResult(TRUE, TRUE, TRUE, None))

\* b, where open(test_file, 'w') raises
Unwritable(b) ==
    [ b EXCEPT !.test_file = Some(Exception("OSError", <<"Read-only", "file", "system">>)) ]

Behaviours ==
    { \* the tests pass, the target file holds the text the converter returned
      Behaviour(Converted(Some(TestText)), Passed, Some(TargetText), None),
      \* the converter returns no test code
      Behaviour(Converted(None), Passed, Some(TargetText), None),
      \* the converter reports a failure
      Behaviour(Returns(ConversionResult(FALSE, None, None,
                                         Some(<<"quota", "exceeded">>))),
                Passed, None, None),
      \* the converter raises
      Behaviour(Raises(Exception("TimeoutError", <<"request", "timed", "out">>)),
                Passed, None, None),
      \* gcc rejects the test file: its stderr is the error
      Behaviour(Converted(Some(TestText)),
                Returns(TestResult(FALSE, FALSE, FALSE,
                                   Some(<<"error:", "expected", "';'">>))),
                Some(TargetText), None),
      \* gcc runs out of time
      Behaviour(Converted(Some(TestText)),
                Returns(TestResult(FALSE, FALSE, FALSE,
                                   Some(<<"Compilation", "timeout", "after",
                                          "30", "seconds">>))),
                Some(TargetText), None),
      \* the test program fails
      Behaviour(Converted(Some(TestText)),
                Returns(TestResult(FALSE, TRUE, FALSE, Some(<<"Segmentation", "fault">>))),
                Some(OtherTargetText), None),
      \* the tester raises
      Behaviour(Converted(Some(TestText)),
                Raises(Exception("PermissionError", <<"Permission", "denied">>)),
                Some(TargetText), None),
      \* the test file cannot be written
      Unwritable(Behaviour(Converted(Some(TestText)), Passed, Some(TargetText), None)),
      \* the target file is not there when the validation opens it
      Behaviour(Converted(None), Passed, None, None),
      \* the result saver cannot write
      Behaviour(Converted(Some(TestText)), Passed, Some(TargetText),
                Some(Exception("OSError", <<"No", "space", "left", "on", "device">>))) }

ServiceInit ==
    /\ NoBatch
    /\ SummaryIdle
    /\ ValidatorIdle
    /\ pc = "batch_convert"
    /\ converter_config \in
         { ConverterConfig(v, t) : v \in BOOLEAN, t \in BOOLEAN }
    /\ pipeline \in UNION { [1..n -> Behaviours] : n \in 0..MaxServiceFiles }
    /\ save_results \in BOOLEAN
    /\ results = <<>>
    /\ raised = None
    /\ archive = {}
    /\ calls = <<>>

ServiceFrame ==
    UNCHANGED <<batch, converter_config, pipeline, save_results, summary,
                dafny_code, c_code, test_score, validation_result>>

\* file number k of the list given to batch_convert, as a path
ListedFile(k) == <<"file", k>>

\* results.append(result), and the history of the calls
ResultsAppend(returned, dafny_file) ==
    /\ results' = Append(results, returned.result)
    /\ calls' = Append(calls, returned.calls)
    /\ archive' = IF \E n \in 1..Len(returned.calls) :
                        returned.calls[n].op = "save_single_result"
                  THEN archive \cup {SingleResult(dafny_file)}
                  ELSE archive

\* one turn of the loop of batch_convert:
\* results.append(self.convert_single_file(dafny_file, ...))
ConvertSingleFile ==
    /\ pc = "batch_convert"
    /\ Len(results) < Len(pipeline)
    /\ ResultsAppend(convert_single_file(converter_config, save_results,
                                          ListedFile(Len(results) + 1),
                                          pipeline[Len(results) + 1]),
                     ListedFile(Len(results) + 1))
    /\ UNCHANGED <<pc, raised>>
    /\ ServiceFrame

\* what is left of batch_convert after the loop: the exception that leaves it
\* (None when it returns) and the calls it made, the writing of the report
\* file among them.  save_batch_results writes
\* three files; failed is the exception of one of these writes, None when
\* they all succeed.
AfterLoop(saving, rs, failed) ==
    LET batch_call == << Call("save_batch_results", rs) >>
        report_call == << Call("generate_summary_report", rs) >>
    IN  IF ~saving THEN [ raises |-> None, calls |-> <<>> ]
        ELSE IF failed # None THEN [ raises |-> failed, calls |-> batch_call ]
        ELSE IF generate_summary_report(rs).raises # None
        THEN [ raises |-> generate_summary_report(rs).raises,
               calls |-> batch_call \o report_call ]
        ELSE [ raises |-> None,
               calls |-> batch_call \o report_call
                         \o << Call("write_report",
                                     Value(generate_summary_report(rs).returns)) >> ]

\* the files of the batch that the calls made after the loop write, whole or
\* in part
BatchFiles(made) ==
    { [ kind |-> made[n].op, file |-> <<>> ] :
        n \in { m \in 1..Len(made) :
                  made[m].op \in {"save_batch_results", "write_report"} } }

WriteErrors ==
    { None, Some(Exception("OSError", <<"No", "space", "left", "on", "device">>)) }

\* batch_convert returns results
BatchConvertReturns ==
    /\ pc = "batch_convert"
    /\ Len(results) = Len(pipeline)
    /\ LET after == AfterLoop(save_results, results, None)
       IN  /\ after.raises = None
           /\ calls' = Append(calls, after.calls)
           /\ archive' = archive \cup BatchFiles(after.calls)
    /\ pc' = "batch_convert_returned"
    /\ UNCHANGED <<results, raised>>
    /\ ServiceFrame

\* an exception leaves batch_convert
BatchConvertRaises ==
    /\ pc = "batch_convert"
    /\ Len(results) = Len(pipeline)
    /\ \E failed \in WriteErrors :
         LET after == AfterLoop(save_results, results, failed)
         IN  /\ after.raises # None
             /\ raised' = after.raises
             /\ calls' = Append(calls, after.calls)
             /\ archive' = archive \cup BatchFiles(after.calls)
    /\ pc' = "batch_convert_raised"
    /\ UNCHANGED results
    /\ ServiceFrame

ServiceNext ==
    \/ ConvertSingleFile
    \/ BatchConvertReturns
    \/ BatchConvertRaises

ServiceSpec == ServiceInit /\ [][ServiceNext]_vars

-----------------------------------------------------------------------------
(* The target directories: a fresh batch over the files of an input        *)
(* directory tree, as get_dafny_files lists them (distinct paths, in the    *)
(* directory and its subdirectories), given to add_files.                  *)

\* the most files of the input directory tree
MaxDirectoryFiles == 2

\* a file name longer than 50 characters that ends in last
LongStem(last) == Repeat(<<"x">>, MaxSafeName) \o last

\* the files an input directory tree can hold
DirectoryFiles ==
    { PathA, PathB,
      \* the same name in a subdirectory
      [parent |-> "in/sub", stem |-> <<"a">>],
      \* names that differ in a part get_output_path_for_file takes out
      [parent |-> "in", stem |-> <<"t", "m", "p", "_", "a">>],
      [parent |-> "in", stem |-> <<"a", "_", "b">>],
      [parent |-> "in", stem |-> <<"a", "_", "t", "m", "p", "_", "t", "m", "p", "b">>],
      \* names that differ after the 47th character
      [parent |-> "in", stem |-> LongStem(<<"a">>)],
      [parent |-> "in", stem |-> LongStem(<<"b">>)] }

\* list(input_dir.glob("**/*.dfy")): no path twice
DirectoryListings ==
    { listing \in UNION { [1..n -> DirectoryFiles] : n \in 0..MaxDirectoryFiles } :
        \A j, k \in 1..Len(listing) : listing[j] = listing[k] => j = k }

DirectoryInit ==
    /\ items = <<>>
    /\ completed_files = {}
    /\ disk = None
    /\ pc = "add"
    /\ reset_failed = FALSE
    /\ files_to_process = <<>>
    /\ i = 0
    /\ result = NoResult
    /\ dafny_files \in DirectoryListings
    /\ transformed = <<>>
    /\ startCompleted = {}
    /\ startFailed = {}
    /\ startOpen = {}
    /\ lastOp = "load_progress"
    /\ intoFailed = <<>>
    /\ Idle

DirectoryNext == AddFiles

DirectorySpec == DirectoryInit /\ [][DirectoryNext]_vars

-----------------------------------------------------------------------------
(* Properties *)

\* the ledger operations that change the items
MutatingOps ==
    {"add_files", "mark_running", "mark_completed", "mark_failed", "mark_skipped",
     "reset_failed_files"}

\* a step of a live ledger instance: neither its construction nor its loss
LedgerStep == pc \notin {"off", "done"} /\ pc' # "off"

EntriesFor(its, p) == { k \in 1..Len(its) : its[k].input_file = p }

\* C1: the ledger holds exactly one WorkItem per source path, whatever
\* operations ran; add() of a path already in the ledger adds no second entry.
C1_OneItemPerPath ==
    \A j, k \in 1..Len(items) : items[j].input_file = items[k].input_file => j = k

\* C2: resume idempotence: add() of a path that is Completed in the ledger
\* leaves exactly one entry for it, Completed, with its scores unchanged.
C2_ResumeIdempotence ==
    [][ (pc = "add" /\ pc' = "reset") =>
          \A p \in PathsWithStatus(items, "completed") :
              /\ Cardinality(EntriesFor(items', p)) = 1
              /\ \A k \in EntriesFor(items', p) :
                    LET old == items[FirstIndex(items, p)]
                    IN  /\ items'[k].status = "completed"
                        /\ items'[k].conversion_score = old.conversion_score
                        /\ items'[k].validation_score = old.validation_score
                        /\ items'[k].test_success = old.test_success ]_vars

\* C3: in a resumed run the transform is never invoked for a path whose item
\* was Completed in the persisted ledger when the run started.
C3_CompletedNotReprocessed ==
    \A k \in 1..Len(transformed) : transformed[k] \notin startCompleted

\* C4: within one batch run each source path is handed to the transform at
\* most once.
C4_AtMostOncePerSession ==
    \A j, k \in 1..Len(transformed) : transformed[j] = transformed[k] => j = k

\* C5: save followed by load into a fresh instance yields the identical
\* sequence of items, every field equal, and a completed-index equal to the
\* set of paths whose state is Completed.
C5_RoundTrip ==
    LET fresh == BatchManager(save_progress(Self, Now).progress_file)
    IN  /\ fresh.items = items
        /\ fresh.completed_files = PathsWithStatus(items, "completed")

C5_Witness ==
    /\ \E k \in 1..Len(items) :
          /\ items[k].status = "completed"
          /\ items[k].retry_count > 0
          /\ items[k].validation_score = Some(900)
          /\ items[k].error_message = None
    /\ \E k \in 1..Len(items) :
          /\ items[k].status = "failed"
          /\ items[k].error_message = Some("quota exceeded")
          /\ items[k].conversion_score = None
    /\ BatchManager(save_progress(Self, Now).progress_file).items = items

\* C6: whenever a mutating ledger operation (add_files, mark_running,
\* mark_completed, mark_failed, mark_skipped, reset_failed_files) has
\* returned, the persisted ledger document holds the in-memory item sequence.
C6_SavedAfterEveryMutation ==
    lastOp \in MutatingOps => (disk # None /\ BatchManager(disk).items = items)

C6_Witness ==
    /\ lastOp = "mark_skipped"
    /\ \E k \in 1..Len(items) : items[k].status = "skipped"
    /\ \E k \in 1..Len(items) : items[k].status = "completed"
    /\ disk # None
    /\ BatchManager(disk).items = items

\* C7: every status change is one of Pending->Running (mark_running only),
\* Running->Completed, Running->Failed, Failed->Pending (reset_failed_files
\* only), Pending->Skipped (mark_skipped only).
LegalEdge(old, new, op) ==
    \/ old = "pending" /\ new = "running" /\ op = "mark_running"
    \/ old = "running" /\ new = "completed" /\ op = "mark_completed"
    \/ old = "running" /\ new = "failed" /\ op = "mark_failed"
    \/ old = "failed" /\ new = "pending" /\ op = "reset_failed_files"
    \/ old = "pending" /\ new = "skipped" /\ op = "mark_skipped"

C7_LegalTransitions ==
    [][ LedgerStep =>
          \A k \in 1..Len(items) :
              items'[k].status # items[k].status =>
                  LegalEdge(items[k].status, items'[k].status, lastOp') ]_vars

\* C8: in a resumed run without the reset flag, an item that was Failed in
\* the persisted ledger is not handed to the transform and is still Failed
\* when the run ends.
C8_FailedNotRetriedWithoutReset ==
    (pc # "off" /\ ~reset_failed) =>
        /\ \A k \in 1..Len(transformed) : transformed[k] \notin startFailed
        /\ (pc = "done" =>
              \A p \in startFailed : items[FirstIndex(items, p)].status = "failed")

\* C9: reset_failed_files on a ledger with N Failed items moves exactly
\* those N items to Pending, each with error_message None, notes, start_time
\* and end_time cleared and retry_count unchanged; no item is Failed afterwards.
C9_ResetFailed ==
    [][ lastOp' = "reset_failed_files" =>
          LET wasFailed == { k \in 1..Len(items) : items[k].status = "failed" }
              moved == { k \in 1..Len(items) : items[k].status # items'[k].status }
          IN  /\ Len(items') = Len(items)
              /\ moved = wasFailed
              /\ \A k \in moved :
                    /\ items'[k].status = "pending"
                    /\ items'[k].error_message = None
                    /\ items'[k].notes = <<>>
                    /\ items'[k].start_time = None
                    /\ items'[k].end_time = None
                    /\ items'[k].retry_count = items[k].retry_count
              /\ \A k \in 1..Len(items') : items'[k].status # "failed" ]_vars

C9_Witness ==
    /\ lastOp = "reset_failed_files"
    /\ \E k \in 1..Len(items) :
          /\ items[k].status = "pending"
          /\ items[k].retry_count > 0
          /\ items[k].error_message = None
          /\ items[k].end_time = None
    /\ \E k \in 1..Len(items) : items[k].status = "completed"

\* C10: retry_count is a non-negative integer, never decreases, changes only
\* in mark_failed, by exactly 1, and equals the number of times the item has
\* entered Failed, also across save/load and reset_failed_files.
RetryCountIsIntoFailed(its) ==
    \A k \in 1..Len(its) :
        /\ its[k].retry_count \in Nat
        /\ its[k].retry_count = intoFailed[k]

C10_RetryCount ==
    /\ [](/\ RetryCountIsIntoFailed(items)
          /\ RetryCountIsIntoFailed(BatchManager(disk).items))
    /\ [][ LedgerStep =>
             \A k \in 1..Len(items) :
                 /\ items'[k].retry_count >= items[k].retry_count
                 /\ items'[k].retry_count # items[k].retry_count =>
                       /\ lastOp' = "mark_failed"
                       /\ pc = "record"
                       /\ items'[k].retry_count = items[k].retry_count + 1
                       /\ items'[k].status = "failed" ]_vars

C10_Witness ==
    \E k \in 1..Len(items) :
        /\ items[k].retry_count = 2
        /\ intoFailed[k] = 2
        /\ items[k].status = "pending"
        /\ lastOp = "load_progress"

\* the positions of the items in status st
WithStatus(its, st) == { k \in 1..Len(its) : its[k].status = st }

\* C11: single sequential worker: in every state of a batch run, fresh or
\* resumed after an interruption, at most one item of the ledger is Running.
C11_AtMostOneRunning ==
    pc \notin {"off", "done"} => Cardinality(WithStatus(items, "running")) <= 1

\* C12: an item that was Pending or Running in the persisted ledger when
\* the run was interrupted is handed to the transform again by the re-invoked
\* run, and is Completed or Failed when that run ends.
C12_OpenItemsReprocessed ==
    pc = "done" =>
        \A k \in startOpen :
            /\ \E j \in 1..Len(transformed) : transformed[j] = items[k].input_file
            /\ items[k].status \in {"completed", "failed"}

\* C13: partial-failure isolation: when the pipeline for one item of the
\* pending list fails (the transform reports failure, or an exception is
\* caught while processing it) and mark_failed has returned, that item is
\* Failed and the loop goes on to the next item of the pending list, or to the
\* end of the run after the last one.
C13_PartialFailureIsolation ==
    [][ ( /\ \/ pc = "record" /\ ~result.success
             \/ pc = "except"
          /\ lastOp' = "mark_failed" ) =>
          /\ items'[files_to_process[i]].status = "failed"
          /\ IF i < Len(files_to_process)
             THEN pc' = "mark_running" /\ i' = i + 1
             ELSE pc' = "finish" ]_vars

\* the ValidationResult returned
Validation == CHOOSE v \in validation_result : TRUE

\* C18: the composite score is 0.25 x structural + 0.35 x annotation +
\* 0.40 x test sub-score, is_valid holds exactly when the composite is above
\* 0.5, and the issue list is non-empty exactly when is_valid is false; a
\* source with one method foo and one requires clause, a target with foo and
\* the one requires clause in an annotation, and no test give 0.60 and valid.
C18_CompositeScore ==
    validation_result # None =>
        LET structural == check_function_signatures_detailed(dafny_code, c_code).score
            annotation == check_acsl_annotations_detailed(dafny_code, c_code).score
            composite == FAdd(FAdd(FMul(Frac(25, 100), structural),
                                   FMul(Frac(35, 100), annotation)),
                              FMul(Frac(40, 100), test_score))
        IN  /\ FEq(Validation.score, composite)
            /\ Validation.is_valid <=> FLess(Half, composite)
            /\ (Validation.issues # <<>>) <=> ~Validation.is_valid
            /\ ( /\ dafny_code = DafnyText(<<"foo">>, 1, 0, TRUE)
                 /\ c_code = CText(<<"foo">>, 1, 0, TRUE)
                 /\ test_score = Zero ) =>
                    /\ FEq(Validation.score, Frac(60, 100))
                    /\ Validation.is_valid

C18_Witness ==
    /\ validation_result # None
    /\ dafny_code = DafnyText(<<"foo">>, 1, 0, TRUE)
    /\ c_code = CText(<<"foo">>, 1, 0, TRUE)
    /\ test_score = Zero
    /\ FEq(Validation.score, Frac(60, 100))
    /\ Validation.is_valid
    /\ Validation.issues = <<>>

\* a fraction in [0, 1]
InUnitInterval(f) == FLeq(Zero, f) /\ FLeq(f, Unit)

\* C19: with the default weights, for every source text, target text and
\* test score in {0, 0.5, 1}, each of the three sub-scores and the composite
\* score lie in [0, 1], also when the target has more requires or ensures
\* clauses than the source.
C19_ScoresInUnitInterval ==
    validation_result # None =>
        /\ InUnitInterval(Validation.metadata.detailed_scores.function_signatures)
        /\ InUnitInterval(Validation.metadata.detailed_scores.acsl_annotations)
        /\ InUnitInterval(Validation.metadata.detailed_scores.tests_passed)
        /\ InUnitInterval(Validation.score)

\* C20: the structural sub-score is the number of source method names that
\* are among the target function names, divided by the number of source
\* methods, and is 1.0 when the source declares no method, whatever the target.
C20_StructuralSubScore ==
    validation_result # None =>
        LET dafny_methods == FindMethods(dafny_code, 1)
            c_functions == FindFunctions(c_code, 1)
            structural == Validation.metadata.detailed_scores.function_signatures
        IN  IF dafny_methods = <<>>
            THEN FEq(structural, Unit)
            ELSE FEq(structural,
                     Frac(Preserved(dafny_methods, c_functions), Len(dafny_methods)))

\* the dictionary returned
Summary == CHOOSE d \in summary : TRUE

\* the completed items whose field is not None
Scored(field) ==
    { k \in WithStatus(items, "completed") : items[k][field] # None }

\* the sum of the values of field over the positions ks
RECURSIVE Total(_, _)
Total(ks, field) ==
    IF ks = {} THEN 0
    ELSE LET k == CHOOSE j \in ks : TRUE
         IN  Value(items[k][field]) + Total(ks \ {k}, field)

\* C17: get_progress_summary changes no ledger state and returns the count
\* of items per status (summing to the total), completion_rate = completed /
\* total (0 for an empty ledger), and the mean conversion score, the mean
\* validation score and the test-pass rate over the completed items whose
\* field is not None (0 when there is none); 6 completed items with
\* validation scores 1.0, 1.0, 0.8, 0.8, 0.6, 0.6 and 4 pending items give
\* completion_rate 0.6 and average validation score 0.8.
C17_ProgressSummary ==
    /\ [][ pc = "summary" =>
             /\ items' = items
             /\ completed_files' = completed_files
             /\ disk' = disk ]_vars
    /\ [](summary # None =>
          /\ \A st \in {"completed", "failed", "pending", "running", "skipped"} :
                Summary[st] = Cardinality(WithStatus(items, st))
          /\ Summary.total_files = Len(items)
          /\ Summary.completed + Summary.failed + Summary.pending
                + Summary.running + Summary.skipped = Summary.total_files
          /\ IF items = <<>>
             THEN FEq(Summary.completion_rate, Zero)
             ELSE FEq(Summary.completion_rate,
                      Frac(Cardinality(WithStatus(items, "completed")), Len(items)))
          /\ IF Scored("conversion_score") = {}
             THEN FEq(Summary.avg_conversion_score, Zero)
             ELSE FEq(Summary.avg_conversion_score,
                      Frac(Total(Scored("conversion_score"), "conversion_score"),
                           One * Cardinality(Scored("conversion_score"))))
          /\ IF Scored("validation_score") = {}
             THEN FEq(Summary.avg_validation_score, Zero)
             ELSE FEq(Summary.avg_validation_score,
                      Frac(Total(Scored("validation_score"), "validation_score"),
                           One * Cardinality(Scored("validation_score"))))
          /\ IF Scored("test_success") = {}
             THEN FEq(Summary.test_success_rate, Zero)
             ELSE FEq(Summary.test_success_rate,
                      Frac(Cardinality({ k \in Scored("test_success") :
                                           Value(items[k].test_success) }),
                           Cardinality(Scored("test_success"))))
          /\ items = ExampleLedger =>
                /\ FEq(Summary.completion_rate, Frac(6, 10))
                /\ FEq(Summary.avg_validation_score, Frac(8, 10)))

C17_Witness ==
    /\ summary # None
    /\ items = ExampleLedger
    /\ Summary.completed = 6
    /\ Summary.pending = 4
    /\ FEq(Summary.completion_rate, Frac(6, 10))
    /\ FEq(Summary.avg_validation_score, Frac(8, 10))

\* the progress file exists and json.load raises on it
Undecodable(file) == file # None /\ ~Decodes(CHOOSE d \in file : TRUE)

\* C15: when the progress file exists but cannot be decoded, the
\* construction of the BatchManager completes and leaves an empty item list and
\* an empty completed-index, and the add_files that follows creates every path
\* as a pending item.
C15_LoadFailureNonFatal ==
    /\ []( (pc \in {"off", "done", "raised"} /\ Undecodable(disk)) =>
              ENABLED FaultConstruct )
    /\ [][ (pc \in {"off", "done", "raised"} /\ Undecodable(disk)) =>
              /\ pc' = "add"
              /\ items' = <<>>
              /\ completed_files' = {} ]_vars
    /\ [][ (pc = "add" /\ Undecodable(disk) /\ lastOp' = "add_files") =>
              /\ Len(items') = Len(dafny_files)
              /\ \A k \in 1..Len(items') :
                    /\ items'[k].input_file = dafny_files[k]
                    /\ items'[k].status = "pending" ]_vars

C15_Witness ==
    /\ pc = "add"
    /\ lastOp = "load_progress"
    /\ Undecodable(disk)
    /\ Len((CHOOSE d \in disk : TRUE).items) > 0
    /\ items = <<>>
    /\ completed_files = {}

\* C16: when save_progress raises inside a ledger operation of the loop,
\* the exception leaves the batch run: it is not caught and recorded as a
\* failure of the item (an item whose transform succeeded is not turned into
\* a failed item because the save inside mark_completed raised).
C16_SaveFailurePropagates ==
    [][ pc = "except" =>
          /\ pc' = "raised"
          /\ lastOp' # "mark_failed" ]_vars

\* the exception a stage raised for file k of the list, None when none did
StageException(k) ==
    ConversionPipeline(converter_config, save_results, ListedFile(k),
                       pipeline[k]).raises

\* the words of message, in a row, are in text
Within(message, text) ==
    \E at \in 0..(Len(text) - Len(message)) :
        SubSeq(text, at + 1, at + Len(message)) = message

\* r is a failed result that carries the message and the type name of e, the
\* type name in its error message or in one of its dictionaries
CarriesException(r, e) ==
    /\ ~r.conversion.success
    /\ r.conversion.error_message # None
    /\ Within(e.message, Value(r.conversion.error_message))
    /\ \/ Within(<<e.type>>, Value(r.conversion.error_message))
       \/ \E key \in DOMAIN r.conversion.metadata : r.conversion.metadata[key] = e.type
       \/ \E key \in DOMAIN r.metadata : r.metadata[key] = e.type

\* C14: no exception leaves batch_convert, whatever the list of files (the
\* empty list included), and for every file a stage raised for, the result of
\* convert_single_file is a failed result that carries the message and the
\* type name of that exception.
C14_NeverRaisesPastBoundary ==
    /\ raised = None
    /\ \A k \in 1..Len(results) :
         StageException(k) # None
            => CarriesException(results[k], Value(StageException(k)))

\* the annotation sub-score of a source that declares a contract, as the sum
\* of capped per-kind ratios: min(target count / source count, 1) for each
\* kind the source has, their average, and 0.1 more, capped at 1, when the
\* target holds an annotation block
CappedAnnotationScore(dafny, c) ==
    LET dafny_requires == CountClauses(dafny, "requires", 1)
        dafny_ensures == CountClauses(dafny, "ensures", 1)
        requires_ratio == FMin(Frac(CountClauses(c, "requires", 1), dafny_requires), Unit)
        ensures_ratio == FMin(Frac(CountClauses(c, "ensures", 1), dafny_ensures), Unit)
        overall == IF dafny_requires > 0 /\ dafny_ensures > 0
                   THEN FMul(FAdd(requires_ratio, ensures_ratio), Half)
                   ELSE IF dafny_requires > 0 THEN requires_ratio
                   ELSE ensures_ratio
    IN  IF CountAcslBlocks(c, 1) > 0
        THEN FMin(FAdd(overall, Frac(1, 10)), Unit)
        ELSE overall

\* C21: when the source declares at least one contract, the annotation
\* sub-score is the average of the per-kind ratios min(target count / source
\* count, 1.0) of the kinds the source has, plus 0.1 capped at 1.0 only when
\* the target holds a converted annotation; a target with more clauses of one
\* kind than the source does not make up for the other kind, and a source with
\* requires clauses and a target with no annotation at all give 0.0.
C21_AnnotationSubScore ==
    ( /\ validation_result # None
      /\ CountClauses(dafny_code, "requires", 1)
           + CountClauses(dafny_code, "ensures", 1) > 0 ) =>
        /\ FEq(Validation.metadata.detailed_scores.acsl_annotations,
               CappedAnnotationScore(dafny_code, c_code))
        /\ ( /\ CountClauses(dafny_code, "requires", 1) = MaxClauses
             /\ CountClauses(dafny_code, "ensures", 1) = 0
             /\ CountClauses(c_code, "requires", 1) = 0
             /\ CountAcslBlocks(c_code, 1) = 0 ) =>
               FEq(Validation.metadata.detailed_scores.acsl_annotations, Zero)

\* the calls named op among the calls made for file k of the list
CallsOf(k, op) == SelectSeq(calls[k], LAMBDA call : call.op = op)

\* C22: whenever the validator is called for a file, the target text it is
\* given is the content of the target file on disk, not the text the
\* converter returned, so that when the two differ the score of the result is
\* the score of the content on disk.
C22_ScoresPersistedArtifact ==
    \A k \in 1..Len(results) :
        CallsOf(k, "validate_conversion") # <<>> =>
            /\ \A n \in 1..Len(CallsOf(k, "validate_conversion")) :
                 CallsOf(k, "validate_conversion")[n].arg = pipeline[k].c_file
            /\ results[k].validation # None =>
                 FEq(Value(results[k].validation).score,
                     validate_conversion(
                         pipeline[k].dafny_code, Value(pipeline[k].c_file),
                         Value(results[k].validation).metadata.detailed_scores.tests_passed).score)

\* the test score the test result of a pipeline result stands for: 1.0 when
\* the tests passed, 0.0 when the test file did not compile, 0.5 for another
\* failure, 0.0 without a test result
EmpiricalScore(testing) ==
    IF testing = None THEN Zero
    ELSE IF Value(testing).success THEN Unit
    ELSE IF ~Value(testing).compiles THEN Zero
    ELSE Half

\* C23: the test score given to the validator is 1.0 when the tests passed,
\* 0.0 whenever the tester reports compiles = false, whatever its error
\* message says, 0.5 for any other failure and 0.0 when no test ran; and a
\* result that has a test result has a validation result whenever the
\* validation is enabled.
C23_EmpiricalSubScore ==
    \A k \in 1..Len(results) :
        /\ results[k].validation # None =>
             FEq(Value(results[k].validation).metadata.detailed_scores.tests_passed,
                 EmpiricalScore(results[k].testing))
        /\ (results[k].testing # None /\ converter_config.enable_validation) =>
             results[k].validation # None

\* C24: with result saving enabled, convert_single_file hands exactly one
\* result to save_single_result for every file it processes, whether the
\* converter succeeded, reported a failure, or a stage raised.
C24_OneResultRecordPerItem ==
    save_results =>
        \A k \in 1..Len(results) : Len(CallsOf(k, "save_single_result")) = 1

\* the report generate_summary_report wrote at the end of batch_convert
WrittenReport ==
    SelectSeq(calls[Len(calls)], LAMBDA call : call.op = "write_report")[1].arg

\* batch_convert has returned and has written its summary report
ReportWritten == pc = "batch_convert_returned" /\ save_results

\* C25: for every list of results batch_convert builds, the summary report
\* lists each failed result with the path of the source file it belongs to
\* and its error message as it is in the result: no failed item is left out
\* or listed without its path.
C25_FailedItemNamed ==
    ReportWritten =>
        \A k \in 1..Len(results) :
            ~results[k].conversion.success =>
                \E n \in 1..Len(WrittenReport.failed) :
                    /\ WrittenReport.failed[n].index = k
                    /\ WrittenReport.failed[n].input_file = ListedFile(k)
                    /\ WrittenReport.failed[n].error_message
                         = results[k].conversion.error_message

\* the results that have a validation score
WithScore == { k \in 1..Len(results) : results[k].validation # None }

\* C26: the five ranges of the summary report cover the whole of [0, 1]:
\* every validation score in [0, 1], exactly 1.0 included, is counted in
\* exactly one range, so that when all scores are in [0, 1] the five counts
\* add up to the number of results that have a validation score.
C26_HistogramCoversUnitInterval ==
    ReportWritten =>
        /\ \A k \in WithScore :
             InUnitInterval(Value(results[k].validation).score) =>
                Cardinality({ n \in 1..5 :
                    /\ FLeq(score_ranges[n].low, Value(results[k].validation).score)
                    /\ FLess(Value(results[k].validation).score,
                             score_ranges[n].high) }) = 1
        /\ (\A k \in WithScore : InUnitInterval(Value(results[k].validation).score))
              => Sum(WrittenReport.distribution) = Cardinality(WithScore)

\* C27: the archive and the ledger are independent.  A step that writes or
\* deletes archive files changes neither the items in memory nor the
\* progress file; the construction of a BatchManager takes its items from the
\* progress file alone, and the files a run processes are the pending items of
\* its ledger: after every archive file was deleted, a resumed run has the
\* ledger and the files to process it would have had.
C27_ArchiveLedgerIndependent ==
    [][ /\ archive' # archive => UNCHANGED <<items, completed_files, disk>>
        /\ (pc \in {"off", "done", "raised"} /\ pc' = "add") =>
              /\ items' = BatchManager(disk).items
              /\ completed_files' = BatchManager(disk).completed_files
              /\ disk' = disk
        /\ (pc \in {"select", "reset"} /\ pc' \in {"mark_running", "done"}) =>
              files_to_process' = get_pending_files(items) ]_vars

C27_Witness ==
    /\ pc = "mark_running"
    /\ i = 1
    /\ transformed = <<>>
    /\ archive = {}
    /\ \E k \in 1..Len(items) : items[k].status = "completed"
    /\ files_to_process # <<>>

\* C28: the end time of an item changes from None to a timestamp only in a
\* mark_completed or mark_failed applied to the item while it is running; no
\* operation sets the end time of an item that is in another state.
C28_EndTimeOnlyOutOfRunning ==
    [][ \A k \in 1..Len(items) :
          ( /\ k <= Len(items')
            /\ items[k].end_time = None
            /\ items'[k].end_time # None ) =>
              /\ items[k].status = "running"
              /\ lastOp' \in {"mark_completed", "mark_failed"} ]_vars

\* C29: items are processed in ledger insertion order: within one batch run
\* the paths are handed to the transform in the order of their positions in
\* the ledger, and when mark_running has been called for a path, every path
\* transformed before it in this run has had its terminal transition.
C29_LedgerInsertionOrder ==
    /\ \A j, k \in 1..Len(transformed) :
          j < k => FirstIndex(items, transformed[j]) < FirstIndex(items, transformed[k])
    /\ pc = "convert" =>
          \A j \in 1..Len(transformed) :
              items[FirstIndex(items, transformed[j])].status \in {"completed", "failed"}

\* the same order holds on every ledger that has no two entries for one path
C29_FreshOnly ==
    (\A j, k \in 1..Len(items) : items[j].input_file = items[k].input_file => j = k)
        => C29_LedgerInsertionOrder

\* the files for which the converter returned a result with success = False
ReportedFailure(k) ==
    /\ pipeline[k].convert_file.returns # None
    /\ ~Value(pipeline[k].convert_file.returns).success

\* C30: Stage 1 short-circuit: when convert_file returns a result with
\* success = False, convert_single_file returns a result with no test result
\* and no validation result whose error message is the converter's message,
\* and it calls neither the tester nor the validator for that file.
C30_StageOneShortCircuit ==
    \A k \in 1..Len(results) :
        ReportedFailure(k) =>
            /\ results[k].testing = None
            /\ results[k].validation = None
            /\ results[k].conversion.error_message =
                   Value(pipeline[k].convert_file.returns).error_message
            /\ CallsOf(k, "compile_and_test") = <<>>
            /\ CallsOf(k, "validate_conversion") = <<>>

C30_Witness ==
    /\ converter_config = ConverterConfig(TRUE, TRUE)
    /\ save_results
    /\ \E k \in 1..Len(results) :
          /\ ReportedFailure(k)
          /\ results[k].conversion.error_message = Some(<<"quota", "exceeded">>)
          /\ CallsOf(k, "convert_file") # <<>>

\* the ledger of the run holds the files of this run and nothing else
FreshLedger == Len(items) = Len(dafny_files)

\* the item of the loop is failed with message m, has failed once, has no
\* scores and is not in the completed index
FailedWith(its, done, k, m) ==
    /\ its[k].status = "failed"
    /\ its[k].error_message = m
    /\ its[k].retry_count = 1
    /\ its[k].conversion_score = None
    /\ its[k].validation_score = None
    /\ its[k].test_success = None
    /\ its[k].input_file \notin done

\* C31: when the transform of an item of a fresh ledger reports failure with
\* message m, the call of mark_failed that follows leaves the item failed
\* with error_message m, retry_count 1 and no scores, and its path is not in
\* completed_files.
C31_TransformFailureRecorded ==
    [][ ( /\ pc = "record" /\ ~result.success /\ result.error_message # None
          /\ FreshLedger
          /\ lastOp' = "mark_failed" ) =>
          FailedWith(items', completed_files', files_to_process[i],
                     result.error_message) ]_vars

\* the same for the messages that are not empty
C31_NonEmptyMessage ==
    [][ ( /\ pc = "record" /\ ~result.success /\ result.error_message # None
          /\ result.error_message # Some("")
          /\ FreshLedger
          /\ lastOp' = "mark_failed" ) =>
          FailedWith(items', completed_files', files_to_process[i],
                     result.error_message) ]_vars

\* the conversion of file k succeeded, test generation is enabled and the
\* converter produced test code
TestStageDue(k) ==
    /\ pipeline[k].convert_file.returns # None
    /\ Value(pipeline[k].convert_file.returns).success
    /\ converter_config.enable_test_generation
    /\ Truthy(Value(pipeline[k].convert_file.returns).test_code)

\* the positions of the calls of op in the history of file k
PositionsOf(k, op) == { n \in 1..Len(calls[k]) : calls[k][n].op = op }

\* nothing but the test stage went wrong for file k: the target file can be
\* read when validation is enabled, and the result saver can write
RestSucceeds(k) ==
    /\ converter_config.enable_validation => pipeline[k].c_file # None
    /\ save_results => pipeline[k].save_single_result = None

\* C32: the tester is called for a file exactly when the conversion
\* succeeded, test generation is enabled and the converter produced test code
\* (and the test file could be written), once, and right after the test code
\* was written to the test file; in every other case the result has no test
\* result and is not a failed result because of that.
C32_TestStageGate ==
    \A k \in 1..Len(results) :
        /\ PositionsOf(k, "compile_and_test") # {} <=>
               (TestStageDue(k) /\ pipeline[k].test_file = None)
        /\ \A n \in PositionsOf(k, "compile_and_test") :
               /\ PositionsOf(k, "compile_and_test") = {n}
               /\ n > 1
               /\ calls[k][n - 1] =
                      Call("write", Value(pipeline[k].convert_file.returns).test_code)
        /\ ~TestStageDue(k) =>
               /\ results[k].testing = None
               /\ ( /\ pipeline[k].convert_file.returns # None
                    /\ Value(pipeline[k].convert_file.returns).success
                    /\ RestSucceeds(k) ) =>
                      results[k].conversion.success

C32_Witness ==
    \E j, k \in 1..Len(results) :
        /\ TestStageDue(j) /\ PositionsOf(j, "compile_and_test") # {}
        /\ results[j].testing # None
        /\ ~TestStageDue(k) /\ results[k].conversion.success
        /\ results[k].testing = None

\* the source text holds no requires clause and no ensures clause
NoContracts(dafny) ==
    CountClauses(dafny, "requires", 1) + CountClauses(dafny, "ensures", 1) = 0

\* C33: when the source declares zero contracts, the annotation sub-score is
\* 1.0 if the target has no ACSL block and 0.8 otherwise, whatever the
\* methods, the functions, the clauses of the target and the test score are.
C33_NoContractsSubScore ==
    ( validation_result # None /\ NoContracts(dafny_code) ) =>
        Validation.metadata.detailed_scores.acsl_annotations =
            IF CountAcslBlocks(c_code, 1) = 0 THEN Unit ELSE Frac(8, 10)

C33_Witness ==
    /\ validation_result # None
    /\ NoContracts(dafny_code)
    /\ CountAcslBlocks(c_code, 1) > 0
    /\ CountClauses(c_code, "requires", 1) = MaxClauses
    /\ FindMethods(dafny_code, 1) # <<>>
    /\ test_score = Unit
    /\ Validation.metadata.detailed_scores.acsl_annotations = Frac(8, 10)

\* the item is completed with conversion score 1.0, the validation score of
\* the result (0.0 when it has none) and the success flag of its test result
\* (False when it has none)
CompletedAs(item, r) ==
    /\ item.status = "completed"
    /\ item.conversion_score = Some(One)
    /\ item.validation_score = Some(IF r.validation # None THEN Value(r.validation) ELSE 0)
    /\ item.test_success = Some(IF r.testing # None THEN Value(r.testing) ELSE FALSE)

\* C34: whenever the transform of an item succeeds and no exception is
\* raised, the batch run marks the item completed with conversion_score 1.0,
\* whatever the test result and the validation score are; validation_score is
\* the score of the validation, or 0.0 without one, and test_success is the
\* success flag of the test result, or False without one.
C34_SuccessRecorded ==
    [][ ( pc = "record" /\ result.success /\ lastOp' = "mark_completed" ) =>
            CompletedAs(items'[files_to_process[i]], result) ]_vars

\* the same for the first entry of the path of the item
C34_FirstEntry ==
    [][ ( pc = "record" /\ result.success /\ lastOp' = "mark_completed" ) =>
            CompletedAs(items'[FirstIndex(items, CurrentFile)], result) ]_vars

MarkOperations == {"mark_running", "mark_completed", "mark_failed", "mark_skipped"}

\* the positions of the items an operation changed
Changed(its, new) == { k \in 1..Len(its) : new[k] # its[k] }

\* the ledgers the four mark operations return when they are called with path p
MarkedAs(p) ==
    { mark_running(Self, p, Now),
      mark_completed(Self, p, One, 900, TRUE, None, CompletedNotes(900), Now),
      mark_failed(Self, p, "quota exceeded", <<"Conversion failed">>, Now),
      mark_skipped(Self, p, <<"not a method">>, Now) }

\* C35: frame of the mark operations: mark_running, mark_completed,
\* mark_failed and mark_skipped keep the number, the order and the paths of
\* the items, change no item but the first one of a path, and add to
\* completed_files no path that is not in the ledger (so a call with a path
\* that is not in the ledger changes neither an item nor completed_files).
C35_MarkFrame ==
    [][ /\ \A p \in ApiPaths : FirstIndex(items, p) = 0 => \A s \in MarkedAs(p) :
              s.items = items /\ s.completed_files = completed_files
        /\ lastOp' \in MarkOperations =>
          /\ Len(items') = Len(items)
          /\ \A k \in 1..Len(items) : items'[k].input_file = items[k].input_file
          /\ Cardinality(Changed(items, items')) <= 1
          /\ \A k \in Changed(items, items') : k = FirstIndex(items, items[k].input_file)
          /\ completed_files' \ completed_files \subseteq
                { items[k].input_file : k \in 1..Len(items) }
          /\ completed_files \subseteq completed_files' ]_vars

C35_Witness ==
    /\ Len(items) = 2
    /\ items[1].input_file = items[2].input_file
    /\ items[1].status = "completed" /\ items[2].status = "pending"
    /\ lastOp = "mark_completed"
    /\ completed_files = {items[1].input_file}

\* C36: completed-index consistency: after any sequence of ledger
\* operations (mark_failed or mark_running on a completed item, save and load
\* included) completed_files is the set of the paths of the completed items.
C36_CompletedIndexConsistent ==
    completed_files = PathsWithStatus(items, "completed")

\* C37: batch run completion: when a batch run, fresh or resumed, returns
\* (the collaborators returned and every save succeeded), every ledger entry
\* that was pending when the processing started is completed or failed, and
\* no entry is pending or running.
C37_RunCompletes ==
    pc = "done" =>
        /\ \A n \in 1..Len(files_to_process) :
              items[files_to_process[n]].status \in {"completed", "failed"}
        /\ \A k \in 1..Len(items) : items[k].status \notin {"pending", "running"}

\* the same for the first entry of every path
C37_FirstEntries ==
    pc = "done" =>
        \A k \in 1..Len(items) :
            k = FirstIndex(items, items[k].input_file) =>
                items[k].status \in {"completed", "failed"}

\* C38: evidence matches the number: for every input the 'score' stored in
\* the evidence record of each criterion (validation_reasons) equals the
\* sub-score of that criterion in detailed_scores, the one the composite is
\* computed from, on every return path of the two checks.
C38_EvidenceMatchesScore ==
    validation_result # None =>
        \A criterion \in {"function_signatures", "acsl_annotations", "tests_passed"} :
            Validation.metadata.validation_reasons[criterion] =
                Validation.metadata.detailed_scores[criterion]

\* the same for the sources in which the code counts a contract
C38_WithContracts ==
    ( validation_result # None /\ ~NoContracts(dafny_code) ) =>
        \A criterion \in {"function_signatures", "acsl_annotations", "tests_passed"} :
            Validation.metadata.validation_reasons[criterion] =
                Validation.metadata.detailed_scores[criterion]

\* C39: add_files gives distinct source paths distinct target directories:
\* two items of a ledger with different input_file (files of the same name in
\* different directories and names longer than 50 characters included) have
\* different output_dir.
C39_DistinctTargetDirectories ==
    \A j, k \in 1..Len(items) :
        items[j].input_file # items[k].input_file =>
            items[j].output_dir # items[k].output_dir

\* the same for the files of one directory whose names are at most 50
\* characters long and hold no "tmp_"
C39_PlainNames ==
    \A j, k \in 1..Len(items) :
        ( /\ items[j].input_file # items[k].input_file
          /\ \A n \in {j, k} :
                /\ items[n].input_file.parent = "in"
                /\ Len(items[n].input_file.stem) <= MaxSafeName
                /\ StrReplace(items[n].input_file.stem, <<"t", "m", "p", "_">>, <<>>)
                      = items[n].input_file.stem ) =>
            items[j].output_dir # items[k].output_dir

=============================================================================
